---- MODULE Spec2Model ----
\* Verification model of the boson-circuit core:
\*   - the causally clocked messaging layer (Causal) with the Lamport clock
\*     service and the Lamport mutex Processor (src/src/lamport_mutex.rs),
\*   - the timer table of the event session (src/src/event.rs).
EXTENDS Integers, Sequences, FiniteSets, TLC

\* ------------------------------------------------------------------ bounds
\* number of local Request events the applications issue in a mutex run
MaxRequests == 2
\* greatest Lamport counter a clock update may reach in a run
MaxClock == 5
\* number of inbound messages handed to a processor run on its own, and the
\* greatest counter on their clocks
MaxInject == 3
MaxInjectClock == 2
\* number of sends the generic application issues in a causal-layer run
MaxSends == 2
\* number of timers set in a session run
MaxTimers == 3
\* length of the session queue up to which a plain event is sent
MaxOther == 3
\* number of calls of unset in a session run
MaxUnsets == 3
\* number of events sent to the session channel up to which a plain event is sent
MaxEvents == 5
\* capacity of the connection table of a TcpControl in a run, standing for the
\* 1024 entries of the program
TCP_MAX_CONNECTION_NUM == 2
\* number of buffers a host sends, of connection attempts that fail, and of
\* times the clock advances in a run of the net
MaxOutgoing == 2
MaxFailures == 1
MaxTicks == 1
\* fragment length, data fragments per chunk and fragments dispersed per chunk
\* of the entropy Peer in a run
fragment_len == 2
chunk_k == 2
chunk_n == 3
\* greatest value of the counter of a LamportClock in a run, standing for the
\* 4294967295 of the u32 of the program, which is beyond the integers of TLC
u32_MAX == 65535
\* number of inputs handed to a verifiable processor run on its own
MaxVerInputs == 6
\* number of chunk ids, and of events the application and the net hand to the Peer
MaxChunks == 2
MaxPeerEvents == 5

\* ------------------------------------------------------------------ program constants
\* greatest frame length the read task accepts
TCP_MAX_BUF_LEN == 1048576
\* seconds for which an entry of the connection table counts as used lately
IdleSecs == 15
\* the address 0.0.0.0:0 (its host and its port)
Wildcard == 0

VARIABLES
    \* Causal (one per node)
    clock, pending_recv, pending_send,
    \* Processor (one per node)
    latests, requests, requesting,
    \* wiring: the causal_net session queue, the processor session queue, the net
    causalQ, procQ, chan,
    \* environment: terminated actors, application state, remaining inputs
    crashed, app, budget,
    \* history: greatest clock forwarded to the application, messages the
    \* generic application consumed, sends issued, clock of the pending Request
    \* once it is handed to the net, the last local Request of an application
    \* that asks at any time
    maxDeliv, got, nsent, curReq, mlast,
    \* verifiable::Processor (one per node): greatest clock it issued an Ordered
    \* for, the certificates it holds per issuer; as history the Ordered
    \* messages handed to the signing net, the clocks at the head of requests
    \* when the RequestOk upcall was sent, and the last handler call
    last_ordered, proof, ordOut, vgrants, vlast,
    \* Session (event.rs): timer_id counter, timer table, channel, timer tasks
    timer_id, timers, squeue, tasks,
    \* session history: events handed to the handler, timers cancelled with Ok,
    \* timer events skipped by the loop, the last session operation, inputs left
    handled, cancelled, skipped, slast, sbudget,
    \* session order history: number of events sent to the channel, the events
    \* handed to the handler in the order of the calls, the timer events skipped
    senq, hlog, sklog,
    \* TcpControl (net/session.rs), one per host: connection table, announced address
    connections, preamble,
    \* the TCP streams, the Incoming events queued per host, the on_buf calls
    streams, incoming, delivered,
    \* time in seconds, clock advances left, per host the buffer lengths and
    \* the destinations of its sends, sends left per host, connection failures left
    now, ticks, sizes, dests, tbudget, failures,
    \* net history: buffers sent, time of the last Outgoing, the last handler call
    nbuf, busy_at, tlast,
    \* tcp_accept_session of the host is in its loop; the streams that have
    \* connected to its listener and are not accepted, and the stream whose
    \* preamble the loop awaits (0 for none)
    accepting, listener,
    \* entropy Peer: upload, download and persist states
    uploads, downloads, persists,
    \* work items with the codec worker, events of the worker in the session of
    \* the Peer, messages sent to the net, blob transfers, upcalls
    works, peerQ, netOut, blobOut, upcalls,
    \* the session of the Peer has ended with an error, events left, and as
    \* history the last handler call
    peer_failed, pbudget, plast,
    \* history of the downloads: per chunk the Gets accepted, the calls of
    \* recover, and for the download state now in place the fragments buffered
    \* in pending and the calls of decode per index
    dstat,
    \* history of the Pull messages delivered to the host of the Peer
    pulls

causalVars == <<clock, pending_recv, pending_send>>
procVars == <<latests, requests, requesting>>
wireVars == <<causalQ, procQ, chan>>
envVars == <<crashed, app, budget>>
histVars == <<maxDeliv, got, nsent, curReq>>
verVars == <<last_ordered, proof, ordOut, vgrants, vlast>>
mutexVars == <<causalVars, procVars, wireVars, envVars, histVars, mlast, verVars>>
orderVars == <<senq, hlog, sklog>>
sessionVars == <<timer_id, timers, squeue, tasks, handled, cancelled, skipped, slast, sbudget, orderVars>>
tcpVars == <<connections, preamble, streams, incoming, delivered, now, ticks, sizes,
             dests, tbudget, failures, nbuf, busy_at, tlast, accepting, listener>>
peerVars == <<uploads, downloads, persists, works, peerQ, netOut, blobOut, upcalls,
              peer_failed, pbudget, plast, dstat, pulls>>
vars == <<mutexVars, sessionVars, tcpVars, peerVars>>

\* ------------------------------------------------------------------ clocks
\* LamportClock = (u32, u8), ordered as a tuple: counter first, then id
cmp(a, b) ==
    IF a[1] < b[1] THEN "Less"
    ELSE IF a[1] > b[1] THEN "Greater"
    ELSE IF a[2] < b[2] THEN "Less"
    ELSE IF a[2] > b[2] THEN "Greater"
    ELSE "Equal"

\* PartialOrd of an Ord type: always Some(cmp)
partial_cmp(a, b) == cmp(a, b)

\* the blanket impl of Clock for Ord types
arbitrary_cmp(a, b) == cmp(a, b)

ClockGe(a, b) == partial_cmp(a, b) \in {"Greater", "Equal"}
ClockGt(a, b) == partial_cmp(a, b) = "Greater"

clock_zero(id) == <<0, id>>

Max(a, b) == IF a >= b THEN a ELSE b

\* ------------------------------------------------------------------ values
Nodes == DOMAIN clock

\* the place of a clock where there is none: below every clock of a node
NoClock == <<-1, 0>>
NoInner == [type |-> "None", id |-> 0]

\* history carried with a message: who sent it to whom and after which
\* deliveries (uid, to, deps), the greatest clock forwarded to the application
\* when send was called (seen) and when the net got it (deliv), the clock
\* installed when the net got it (inst), whether the send had been deferred,
\* its rank among the arrivals at the receiver (arr), whether the receiver held
\* it in pending_recv (held), and the UpdateOk clock that accounts for it at
\* the receiver (upd)
Tag(uid, to, deps) ==
    [uid |-> uid, to |-> to, deps |-> deps, seen |-> NoClock, deliv |-> NoClock,
     inst |-> NoClock, deferred |-> FALSE, arr |-> 0, held |-> FALSE, upd |-> NoClock]
NoTag == Tag(<<0, 0>>, {}, {})

\* history is recorded for the messages of the generic application only, which
\* number their sends from 1; the mutex messages carry none
History(old, new) == IF old.uid[2] = 0 THEN old ELSE new


Clocked(c, inner, tag) == [clock |-> c, inner |-> inner, tag |-> tag]

Event(kind, c, inner, dest, tag) ==
    [kind |-> kind, clock |-> c, inner |-> inner, dest |-> dest, tag |-> tag]

InitEvent == Event("Init", NoClock, NoInner, {}, NoTag)
UpdateOkEvent(c) == Event("UpdateOk", c, NoInner, {}, NoTag)
RecvEvent(m) == Event("Recv", m.clock, m.inner, {}, m.tag)
SendEvent(dest, inner, tag) == Event("Send", NoClock, inner, dest, tag)

\* what a call of the clock service does: it sends UpdateOk with a clock, or
\* it panics and sends nothing
Answer(c) == [panics |-> FALSE, clock |-> c]
Panic == [panics |-> TRUE, clock |-> NoClock]

\* the clock service that answers the greater counter as it is
LamportMax(update, id) == {Answer(<<Max(update.prev[1], update.remote[1]), id>>)}

\* Lamport::send: what answers Update{prev, remote} at node id. The counter
\* is a u32: at the greatest value the sum panics in a build with overflow
\* checks and wraps to 0 in a build without
LamportSend(update, id) ==
    LET greatest == Max(update.prev[1], update.remote[1])
    IN  IF greatest < u32_MAX
        THEN {Answer(<<greatest + 1, id>>)}
        ELSE {Panic, Answer(<<(greatest + 1) % (u32_MAX + 1), id>>)}

None == [is_some |-> FALSE, items |-> <<>>]
Some(q) == [is_some |-> TRUE, items |-> q]

\* the message dropped where the code holds it
PushNone(items, clocked) == items

\* VecDeque::push_back
PushBack(items, clocked) == Append(items, clocked)

\* the queue left in place where the code clears it
Kept(opt) == opt

\* self.pending_recv = None
Cleared(opt) == None

\* ------------------------------------------------------------------ net
\* the net hands one clocked message to every destination's connection
NetSend(ch, src, dest, m) ==
    [pr \in DOMAIN ch |->
        IF pr[1] = src /\ pr[2] \in dest THEN Append(ch[pr], m) ELSE ch[pr]]

RECURSIVE NetSendAll(_, _, _)
NetSendAll(ch, src, outs) ==
    IF outs = <<>> THEN ch
    ELSE NetSendAll(NetSend(ch, src, Head(outs).dest,
                            Clocked(Head(outs).clock, Head(outs).inner, Head(outs).tag)),
                    src, Tail(outs))

\* ------------------------------------------------------------------ Causal
\* a send that is never deferred
NeverDeferred(p) == FALSE

\* SendMessage::send defers while a clock update is in flight
Deferred(p) == pending_recv[p].is_some

\* the clock stamped on a send that is handed to the net at once
SendClock(p) == clock[p]

\* the clock stamped on the deferred sends drained by UpdateOk(c)
DrainClock(p, c) == c

\* the deferred sends taken last first
DrainReversed(sends) == [i \in 1..Len(sends) |-> sends[Len(sends) + 1 - i]]

\* Vec::drain(..): every deferred send, in the order of the pushes
Drain(sends) == sends

\* VecDeque::pop_front: the message UpdateOk takes from pending_recv
PopFront(items) == [item |-> Head(items), rest |-> Tail(items)]

\* the counters of the update stay within the bound of the run: among the
\* least counters, or among the greatest ones that a u32 holds
ClockRoom(prev, remote) ==
    LET counter == Max(prev[1], remote[1]) + 1
    IN  counter <= MaxClock \/ u32_MAX - MaxClock < counter

\* what the clock service does with the Update for a message forwarded at p
UpdateFor(p, prev, clocked) == LamportSend([prev |-> prev, remote |-> clocked.clock], p)

\* the Recv event forwarded to recv_sender; as history it names the clock of
\* the UpdateOk sent for it
Forward(p, clocked, upd) ==
    RecvEvent([clocked EXCEPT !.tag = History(@, [@ EXCEPT !.upd = upd])])

\* greatest clock of an application message forwarded to recv_sender so far
Seen(p, fwd) ==
    IF fwd # <<>> /\ fwd[1].tag.uid[2] # 0 /\ ClockGt(fwd[1].clock, maxDeliv[p]) THEN fwd[1].clock ELSE maxDeliv[p]

\* clock of the latest Request among the messages handed to the net
RECURSIVE LatestRequest(_, _)
LatestRequest(c, outs) ==
    IF outs = <<>> THEN c
    ELSE LatestRequest(IF Head(outs).inner.type = "Request" THEN Head(outs).clock ELSE c,
                       Tail(outs))

\* OnEvent<Init> for Causal
CausalInit(p) ==
    /\ ~crashed[p]
    /\ causalQ[p] # <<>>
    /\ Head(causalQ[p]).kind = "Init"
    /\ ClockRoom(clock[p], clock[p])
    /\ \E answer \in LamportSend([prev |-> clock[p], remote |-> clock[p]], p) :
           IF answer.panics
           THEN /\ crashed' = [crashed EXCEPT ![p] = TRUE]
                /\ causalQ' = [causalQ EXCEPT ![p] = Tail(@)]
                /\ UNCHANGED pending_recv
           ELSE /\ pending_recv' = [pending_recv EXCEPT ![p] = Some(<<>>)]
                /\ causalQ' = [causalQ EXCEPT ![p] = Append(Tail(@), UpdateOkEvent(answer.clock))]
                /\ UNCHANGED crashed
    /\ UNCHANGED <<clock, pending_send, procVars, procQ, chan, app, budget, histVars>>
    /\ UNCHANGED <<mlast, verVars, sessionVars, tcpVars, peerVars>>

\* the net's receive task of connection s -> p sends Recv into the causal session
NetDeliver(s, p) ==
    /\ ~crashed[p]
    /\ chan[<<s, p>>] # <<>>
    /\ chan' = [chan EXCEPT ![<<s, p>>] = Tail(@)]
    /\ causalQ' = [causalQ EXCEPT ![p] = Append(@, RecvEvent(Head(chan[<<s, p>>])))]
    /\ UNCHANGED <<causalVars, procVars, procQ, envVars, histVars>>
    /\ UNCHANGED <<mlast, verVars, sessionVars, tcpVars, peerVars>>

\* OnEvent<Recv<Clocked<M, C>>> for Causal
CausalRecv(p) ==
    /\ ~crashed[p]
    /\ causalQ[p] # <<>>
    /\ Head(causalQ[p]).kind = "Recv"
    /\ IF pending_recv[p].is_some THEN TRUE
       ELSE ClockRoom(clock[p], Head(causalQ[p]).clock)
    /\ LET ev == Head(causalQ[p])
           arr == Len(got[p]) + Len(procQ[p]) + Len(pending_recv[p].items) + 1
           clocked == Clocked(ev.clock, ev.inner, History(ev.tag, [ev.tag EXCEPT !.arr = arr]))
       IN  IF pending_recv[p].is_some
           THEN /\ pending_recv' = [pending_recv EXCEPT ![p] =
                        Some(PushBack(@.items, [clocked EXCEPT !.tag = History(@, [@ EXCEPT !.held = TRUE])]))]
                /\ causalQ' = [causalQ EXCEPT ![p] = Tail(@)]
                /\ UNCHANGED <<procQ, maxDeliv, crashed>>
           ELSE /\ pending_recv' = [pending_recv EXCEPT ![p] = Some(<<>>)]
                /\ \E answer \in UpdateFor(p, clock[p], clocked) :
                       IF answer.panics
                       THEN /\ crashed' = [crashed EXCEPT ![p] = TRUE]
                            /\ causalQ' = [causalQ EXCEPT ![p] = Tail(@)]
                            /\ UNCHANGED <<procQ, maxDeliv>>
                       ELSE /\ causalQ' = [causalQ EXCEPT ![p] =
                                    Append(Tail(@), UpdateOkEvent(answer.clock))]
                            /\ procQ' = [procQ EXCEPT ![p] =
                                    Append(@, Forward(p, clocked, answer.clock))]
                            /\ maxDeliv' = [maxDeliv EXCEPT ![p] = Seen(p, <<clocked>>)]
                            /\ UNCHANGED crashed
    /\ UNCHANGED <<clock, pending_send, procVars, chan, app, budget, got, nsent, curReq>>
    /\ UNCHANGED <<mlast, verVars, sessionVars, tcpVars, peerVars>>

\* SendMessage<A, M> for Causal, called for a Send event of the causal session
CausalSend(p) ==
    /\ ~crashed[p]
    /\ causalQ[p] # <<>>
    /\ Head(causalQ[p]).kind = "Send"
    /\ LET ev == Head(causalQ[p])
           out == [dest |-> ev.dest, clock |-> SendClock(p), inner |-> ev.inner,
                   tag |-> History(ev.tag, [ev.tag EXCEPT !.seen = maxDeliv[p], !.deliv = maxDeliv[p],
                                          !.inst = clock[p]])]
       IN  /\ causalQ' = [causalQ EXCEPT ![p] = Tail(@)]
           /\ IF Deferred(p)
              THEN /\ pending_send' = [pending_send EXCEPT ![p] =
                            Append(@, [out EXCEPT !.tag = History(@, [@ EXCEPT !.deferred = TRUE])])]
                   /\ UNCHANGED <<chan, curReq>>
              ELSE /\ chan' = NetSendAll(chan, p, <<out>>)
                   /\ curReq' = [curReq EXCEPT ![p] = LatestRequest(@, <<out>>)]
                   /\ UNCHANGED pending_send
    /\ UNCHANGED <<clock, pending_recv, procVars, procQ, envVars, maxDeliv, got, nsent>>
    /\ UNCHANGED <<mlast, verVars, sessionVars, tcpVars, peerVars>>

\* OnEvent<UpdateOk<C>> for Causal
CausalUpdateOk(p) ==
    /\ ~crashed[p]
    /\ causalQ[p] # <<>>
    /\ Head(causalQ[p]).kind = "UpdateOk"
    /\ IF pending_recv[p].items = <<>> THEN TRUE
       ELSE ClockRoom(Head(causalQ[p]).clock, Head(pending_recv[p].items).clock)
    /\ LET c == Head(causalQ[p]).clock
       IN  IF partial_cmp(c, clock[p]) # "Greater"
           THEN \* anyhow::ensure! fails: the handler returns the error
                /\ crashed' = [crashed EXCEPT ![p] = TRUE]
                /\ causalQ' = [causalQ EXCEPT ![p] = Tail(@)]
                /\ UNCHANGED <<causalVars, procQ, chan, maxDeliv, curReq>>
           ELSE IF ~pending_recv[p].is_some
           THEN \* missing pending recv queue
                /\ clock' = [clock EXCEPT ![p] = c]
                /\ crashed' = [crashed EXCEPT ![p] = TRUE]
                /\ causalQ' = [causalQ EXCEPT ![p] = Tail(@)]
                /\ UNCHANGED <<pending_recv, pending_send, procQ, chan, maxDeliv, curReq>>
           ELSE LET items == pending_recv[p].items
                    popped == IF items # <<>> THEN <<PopFront(items).item>> ELSE <<>>
                    seen == Seen(p, popped)
                    sends == Drain(pending_send[p])
                    outs == [i \in 1..Len(sends) |->
                                [sends[i] EXCEPT !.clock = DrainClock(p, c),
                                                 !.tag = History(@, [@ EXCEPT !.deliv = seen, !.inst = c])]]
                    drained == /\ maxDeliv' = [maxDeliv EXCEPT ![p] = seen]
                               /\ pending_send' = [pending_send EXCEPT ![p] = <<>>]
                               /\ chan' = NetSendAll(chan, p, outs)
                               /\ curReq' = [curReq EXCEPT ![p] = LatestRequest(@, outs)]
                               /\ UNCHANGED crashed
                IN  /\ clock' = [clock EXCEPT ![p] = c]
                    /\ IF items # <<>>
                       THEN /\ pending_recv' = [pending_recv EXCEPT ![p] = Some(PopFront(items).rest)]
                            /\ \E answer \in UpdateFor(p, c, popped[1]) :
                                   IF answer.panics
                                   THEN \* the handler unwinds before it forwards or drains
                                        /\ crashed' = [crashed EXCEPT ![p] = TRUE]
                                        /\ causalQ' = [causalQ EXCEPT ![p] = Tail(@)]
                                        /\ UNCHANGED <<procQ, pending_send, chan, maxDeliv, curReq>>
                                   ELSE /\ causalQ' = [causalQ EXCEPT ![p] =
                                                Append(Tail(@), UpdateOkEvent(answer.clock))]
                                        /\ procQ' = [procQ EXCEPT ![p] =
                                                Append(@, Forward(p, popped[1], answer.clock))]
                                        /\ drained
                       ELSE /\ pending_recv' = [pending_recv EXCEPT ![p] = Cleared(@)]
                            /\ causalQ' = [causalQ EXCEPT ![p] = Tail(@)]
                            /\ UNCHANGED procQ
                            /\ drained
    /\ UNCHANGED <<procVars, app, budget, got, nsent>>
    /\ UNCHANGED <<mlast, verVars, sessionVars, tcpVars, peerVars>>

\* ------------------------------------------------------------------ Processor
Request(id) == [type |-> "Request", id |-> id]
RequestOk(id) == [type |-> "RequestOk", id |-> id]
Release(id) == [type |-> "Release", id |-> id]

\* the mutex messages carry no application history
ProcTag(p, dest) == Tag(<<p, 0>>, dest, {})

\* slice::binary_search_by over requests with |(clock, _)| clock.arbitrary_cmp(c);
\* indices count from 0, found is Ok(index), otherwise Err(index)
RECURSIVE BinarySearchLoop(_, _, _, _, _)
BinarySearchLoop(reqs, c, left, right, size) ==
    IF left >= right THEN [found |-> FALSE, index |-> left]
    ELSE LET mid == left + (size \div 2)
             o == arbitrary_cmp(reqs[mid + 1][1], c)
         IN  IF o = "Less" THEN BinarySearchLoop(reqs, c, mid + 1, right, right - (mid + 1))
             ELSE IF o = "Greater" THEN BinarySearchLoop(reqs, c, left, mid, mid - left)
             ELSE [found |-> TRUE, index |-> mid]

\* the search that finds nothing and answers the front
SearchFront(reqs, c) == [found |-> FALSE, index |-> 0]

binary_search_by(reqs, c) == BinarySearchLoop(reqs, c, 0, Len(reqs), Len(reqs))

\* Vec::insert and Vec::remove at a 0-based index
VecInsert(v, index, x) == SubSeq(v, 1, index) \o <<x>> \o SubSeq(v, index + 1, Len(v))
VecRemove(v, index) == SubSeq(v, 1, index) \o SubSeq(v, index + 2, Len(v))

\* Iterator::position of the first entry of id, as a set holding the index or nothing
Position(reqs, id) ==
    LET hits == {i \in 1..Len(reqs) : reqs[i][2] = id}
    IN  IF hits = {} THEN {} ELSE {(CHOOSE i \in hits : \A j \in hits : i <= j) - 1}

\* the out of order check left out
AcceptsAny(latest, c) == TRUE

\* the out of order check that takes only a greater clock
AcceptsGreater(latest, c) == partial_cmp(c, latest) = "Greater"

\* the out of order check on an inbound clock
Accepts(latest, c) == partial_cmp(c, latest) \in {"Greater", "Equal"}

\* Processor::handle_clocked with into_addr = |id| id
handle_clocked(p, message) ==
    LET id == message.inner.id
        same == [latests |-> latests[p], requests |-> requests[p], reply |-> <<>>,
                 err |-> FALSE, dropped |-> TRUE]
    IN  IF ~Accepts(latests[p][id], message.clock) THEN same
        ELSE LET lat == [latests[p] EXCEPT ![id] = message.clock]
                 acc == [same EXCEPT !.latests = lat, !.dropped = FALSE]
             IN  IF message.inner.type = "Request"
                 THEN LET found == binary_search_by(requests[p], message.clock)
                      IN  [acc EXCEPT
                            !.requests = IF found.found THEN requests[p]
                                         ELSE VecInsert(requests[p], found.index, <<message.clock, id>>),
                            !.reply = <<SendEvent({id}, RequestOk(p), ProcTag(p, {id}))>>]
                 ELSE IF message.inner.type = "Release"
                 THEN LET pos == Position(requests[p], id)
                      IN  IF pos = {} THEN acc
                          ELSE LET index == CHOOSE i \in pos : TRUE
                                   removed == requests[p][index + 1]
                               IN  [acc EXCEPT
                                     !.requests = VecRemove(requests[p], index),
                                     !.err = arbitrary_cmp(message.clock, removed[1]) # "Greater"]
                 ELSE acc

\* the check that looks at the head of requests alone
CheckedHead(p, lat, reqs) == reqs # <<>> /\ reqs[1][2] = p

\* Processor::check_requested: whether the RequestOk upcall is sent
check_requested(p, lat, reqs) ==
    /\ reqs # <<>>
    /\ reqs[1][2] = p
    /\ \A j \in DOMAIN lat : partial_cmp(lat[j], reqs[1][1]) \in {"Greater", "Equal"}

\* OnEvent<Recv<Clocked<Message, C>>> for Processor
ProcRecv(p) ==
    /\ ~crashed[p]
    /\ procQ[p] # <<>>
    /\ LET ev == Head(procQ[p])
           h == handle_clocked(p, Clocked(ev.clock, ev.inner, ev.tag))
           grant == ~h.err /\ requesting[p] /\ check_requested(p, h.latests, h.requests)
       IN  /\ procQ' = [procQ EXCEPT ![p] = Tail(@)]
           /\ latests' = [latests EXCEPT ![p] = h.latests]
           /\ requests' = [requests EXCEPT ![p] = h.requests]
           /\ causalQ' = [causalQ EXCEPT ![p] = @ \o h.reply]
           /\ crashed' = [crashed EXCEPT ![p] = h.err]
           /\ requesting' = [requesting EXCEPT ![p] = IF grant THEN FALSE ELSE @]
           /\ app' = [app EXCEPT ![p] = IF grant THEN "holding" ELSE @]
    /\ UNCHANGED <<causalVars, chan, budget, histVars>>
    /\ UNCHANGED <<mlast, verVars, sessionVars, tcpVars, peerVars>>

\* OnEvent<events::Request> for Processor; the application asks when it is idle
LocalRequest(p) ==
    /\ ~crashed[p]
    /\ app[p] = "idle"
    /\ budget[p] > 0
    /\ budget' = [budget EXCEPT ![p] = @ - 1]
    /\ app' = [app EXCEPT ![p] = "waiting"]
    /\ requesting' = [requesting EXCEPT ![p] = TRUE]
    /\ IF requesting[p]
       THEN \* concurrent request
            /\ crashed' = [crashed EXCEPT ![p] = TRUE]
            /\ UNCHANGED causalQ
       ELSE /\ causalQ' = [causalQ EXCEPT ![p] =
                    Append(@, SendEvent(Nodes, Request(p), ProcTag(p, Nodes)))]
            /\ UNCHANGED crashed
    /\ curReq' = [curReq EXCEPT ![p] = NoClock]
    /\ UNCHANGED <<causalVars, latests, requests, procQ, chan, maxDeliv, got, nsent>>
    /\ UNCHANGED <<mlast, verVars, sessionVars, tcpVars, peerVars>>

\* OnEvent<events::Release> for Processor; the application releases what it holds
LocalRelease(p) ==
    /\ ~crashed[p]
    /\ app[p] = "holding"
    /\ app' = [app EXCEPT ![p] = "idle"]
    /\ IF requesting[p]
       THEN \* release while requesting
            /\ crashed' = [crashed EXCEPT ![p] = TRUE]
            /\ UNCHANGED causalQ
       ELSE /\ causalQ' = [causalQ EXCEPT ![p] =
                    Append(@, SendEvent(Nodes, Release(p), ProcTag(p, Nodes)))]
            /\ UNCHANGED crashed
    /\ UNCHANGED <<causalVars, procVars, procQ, chan, budget, histVars>>
    /\ UNCHANGED <<mlast, verVars, sessionVars, tcpVars, peerVars>>

\* replace that reports no previous value
ReplaceFresh(old, new) == [replaced |-> FALSE, value |-> new]

\* std::mem::replace: the value now held and the one it took the place of
Replace(old, new) == [replaced |-> old, value |-> new]

\* OnEvent<events::Request> for Processor, with an application that asks at
\* any time
RequestAny(p) ==
    /\ ~crashed[p]
    /\ budget[p] > 0
    /\ budget' = [budget EXCEPT ![p] = @ - 1]
    /\ LET r == Replace(requesting[p], TRUE)
       IN  /\ requesting' = [requesting EXCEPT ![p] = r.value]
           /\ IF r.replaced
              THEN \* concurrent request
                   /\ crashed' = [crashed EXCEPT ![p] = TRUE]
                   /\ UNCHANGED causalQ
              ELSE /\ causalQ' = [causalQ EXCEPT ![p] =
                           Append(@, SendEvent(Nodes, Request(p), ProcTag(p, Nodes)))]
                   /\ UNCHANGED crashed
    /\ mlast' = [op |-> "Request", node |-> p, replaced |-> requesting[p]]
    /\ UNCHANGED <<causalVars, latests, requests, procQ, chan, app, histVars>>
    /\ UNCHANGED <<verVars, sessionVars, tcpVars, peerVars>>

\* the clock service answers the causal session of p with a clock of its choice
InjectUpdateOk(p, c) ==
    /\ ~crashed[p]
    /\ budget[p] > 0
    /\ budget' = [budget EXCEPT ![p] = @ - 1]
    /\ causalQ' = [causalQ EXCEPT ![p] = Append(@, UpdateOkEvent(c))]
    /\ UNCHANGED <<causalVars, procVars, procQ, chan, crashed, app, histVars>>
    /\ UNCHANGED <<mlast, verVars, sessionVars, tcpVars, peerVars>>

\* ------------------------------------------------------------------ generic application
\* an application over the Causal layer that sends to one node or to All
AppSend(p, dest) ==
    /\ ~crashed[p]
    /\ budget[p] > 0
    /\ budget' = [budget EXCEPT ![p] = @ - 1]
    /\ nsent' = [nsent EXCEPT ![p] = @ + 1]
    /\ causalQ' = [causalQ EXCEPT ![p] =
            Append(@, SendEvent(dest, RequestOk(p),
                Tag(<<p, nsent[p] + 1>>, dest,
                    {[uid |-> got[p][i].uid, to |-> got[p][i].to] : i \in 1..Len(got[p])})))]
    /\ UNCHANGED <<causalVars, procVars, procQ, chan, crashed, app, maxDeliv, got, curReq>>
    /\ UNCHANGED <<mlast, verVars, sessionVars, tcpVars, peerVars>>

\* the application takes the next Recv from its session
AppRecv(p) ==
    /\ ~crashed[p]
    /\ procQ[p] # <<>>
    /\ procQ' = [procQ EXCEPT ![p] = Tail(@)]
    /\ got' = [got EXCEPT ![p] = Append(@, Head(procQ[p]).tag)]
    /\ UNCHANGED <<causalVars, procVars, causalQ, chan, envVars, maxDeliv, nsent, curReq>>
    /\ UNCHANGED <<mlast, verVars, sessionVars, tcpVars, peerVars>>

\* ------------------------------------------------------------------ Processor on its own
\* a clocked message of any peer reaches the processor session
Inject(p, m) ==
    /\ ~crashed[p]
    /\ budget[p] > 0
    /\ budget' = [budget EXCEPT ![p] = @ - 1]
    /\ procQ' = [procQ EXCEPT ![p] = Append(@, RecvEvent(m))]
    /\ UNCHANGED <<causalVars, procVars, causalQ, chan, crashed, app, histVars>>
    /\ UNCHANGED <<mlast, verVars, sessionVars, tcpVars, peerVars>>

\* ------------------------------------------------------------------ Session timers
TimerEvent(id) == [kind |-> "Timer", id |-> id]
OtherEvent == [kind |-> "Other", id |-> 0]

\* UnboundedSender::send: the event joins the channel as the n-th one sent
ChannelSend(q, event, n) == Append(q, [kind |-> event.kind, id |-> event.id, seq |-> n])

\* the receiver takes the event sent last
ChannelRecvLast(q) == [event |-> q[Len(q)], rest |-> SubSeq(q, 1, Len(q) - 1)]

\* UnboundedReceiver::recv: the receiver takes the event sent first
ChannelRecv(q) == [event |-> Head(q), rest |-> Tail(q)]

\* the last call of unset: its argument, whether the id was in the table and
\* whether its event had been handed to the handler when it was called, what
\* it returned, and whether it left the table and the queue as they were
Last(op, id, ok, same) ==
    [op |-> op, id |-> id, known |-> id \in timers, delivered |-> id \in handled,
     ok |-> ok, same |-> same]

\* ------------------------------------------------------------------ Session timer properties
\* the loop hands over every timer event, whatever the table holds
TimerAlways(id) == TRUE

\* HashMap::remove(&timer_id).is_some() in the loop of Session::run
TimerPresent(id) == id \in timers

\* unset reports success for every id
UnsetAlways(id) == TRUE

\* HashMap::remove(&timer_id).ok_or(..) in Timer::unset
UnsetOk(id) == id \in timers

\* Timer::set_internal
SessionSet ==
    /\ timer_id < MaxTimers
    /\ timer_id' = timer_id + 1
    /\ timers' = timers \cup {timer_id + 1}
    /\ tasks' = tasks \cup {[id |-> timer_id + 1, aborted |-> FALSE]}
    /\ UNCHANGED <<squeue, handled, cancelled, skipped, slast, sbudget, orderVars>>
    /\ UNCHANGED <<mutexVars, tcpVars, peerVars>>

\* the timer task wakes up and sends its event; an aborted task may still be
\* running, since JoinHandle::abort does not wait for it
TimerFire(id) ==
    /\ \E t \in tasks : t.id = id
    /\ tasks' = {t \in tasks : t.id # id}
    /\ squeue' = ChannelSend(squeue, TimerEvent(id), senq + 1)
    /\ senq' = senq + 1
    /\ UNCHANGED <<timer_id, timers, handled, cancelled, skipped, slast, sbudget, hlog, sklog>>
    /\ UNCHANGED <<mutexVars, tcpVars, peerVars>>

\* an aborted timer task ends without sending
TimerAborted(id) ==
    /\ [id |-> id, aborted |-> TRUE] \in tasks
    /\ tasks' = tasks \ {[id |-> id, aborted |-> TRUE]}
    /\ UNCHANGED <<timer_id, timers, squeue, handled, cancelled, skipped, slast, sbudget, orderVars>>
    /\ UNCHANGED <<mutexVars, tcpVars, peerVars>>

\* Timer::unset
SessionUnset(id) ==
    /\ sbudget > 0
    /\ sbudget' = sbudget - 1
    /\ IF UnsetOk(id)
       THEN /\ timers' = timers \ {id}
            /\ tasks' = {IF t.id = id THEN [t EXCEPT !.aborted = TRUE] ELSE t : t \in tasks}
            /\ cancelled' = cancelled \cup {id}
       ELSE UNCHANGED <<timers, tasks, cancelled>>
    /\ UNCHANGED <<timer_id, squeue, handled, skipped, orderVars>>
    /\ slast' = Last("unset", id, UnsetOk(id), timers' = timers /\ squeue' = squeue)
    /\ UNCHANGED <<mutexVars, tcpVars, peerVars>>

\* a sender of the session sends a plain event
SessionSend ==
    /\ Len(squeue) < MaxOther
    /\ senq < MaxEvents
    /\ ~(\E i \in 1..Len(squeue) : squeue[i].kind = "Other")
    /\ squeue' = ChannelSend(squeue, OtherEvent, senq + 1)
    /\ senq' = senq + 1
    /\ UNCHANGED <<timer_id, timers, tasks, handled, cancelled, skipped, slast, sbudget, hlog, sklog>>
    /\ UNCHANGED <<mutexVars, tcpVars, peerVars>>

\* one turn of the loop of Session::run
SessionRun ==
    /\ squeue # <<>>
    /\ squeue' = ChannelRecv(squeue).rest
    /\ LET event == ChannelRecv(squeue).event
       IN  IF event.kind = "Timer"
           THEN IF TimerPresent(event.id)
                THEN /\ timers' = timers \ {event.id}
                     /\ handled' = handled \cup {event.id}
                     /\ hlog' = Append(hlog, event)
                     /\ UNCHANGED <<skipped, sklog>>
                ELSE /\ skipped' = skipped \cup {event.id}
                     /\ sklog' = sklog \cup {[event |-> event, present |-> event.id \in timers]}
                     /\ UNCHANGED <<timers, handled, hlog>>
           ELSE /\ hlog' = Append(hlog, event)
                /\ UNCHANGED <<timers, handled, skipped, sklog>>
    /\ UNCHANGED <<timer_id, tasks, cancelled, slast, sbudget, senq>>
    /\ UNCHANGED <<mutexVars, tcpVars, peerVars>>

\* ------------------------------------------------------------------ TCP connections
\* net/session.rs: every host runs one TcpControl; a stream is one TCP
\* connection with its two ends "c" (the host that connected) and "s" (the
\* host that accepted), each with the egress channel its write task drains,
\* the buffer whose length its write task has written and whose bytes it has
\* not, the frames it has begun to write and the peer has not read to their
\* end, its read task (awaiting a length, or the buffer of the frame at the
\* head of the wire) and its write task, and as history all the frames it
\* has begun to write and whether on_buf has returned an error to its read
\* task
Hosts == DOMAIN connections
Ends == {"c", "s"}
OtherEnd(e) == IF e = "c" THEN "s" ELSE "c"
HostAt(st, e) == IF e = "c" THEN st.client ELSE st.server

\* Connection { sender, used_at }, kept under the key remote
Connection(remote, stream, end, used_at) ==
    [remote |-> remote, sender |-> [stream |-> stream, end |-> end], used_at |-> used_at]

\* LruCache: the table is kept in the order of use, least recently used first
LruIndex(t, k) ==
    IF \E i \in 1..Len(t) : t[i].remote = k
    THEN CHOOSE i \in 1..Len(t) : t[i].remote = k
    ELSE 0
LruWithout(t, i) == SubSeq(t, 1, i - 1) \o SubSeq(t, i + 1, Len(t))
LruPop(t, k) == LruWithout(t, LruIndex(t, k))
LruPeekLru(t) == t[1]
LruPopLru(t) == Tail(t)

\* the table never finds the key
CacheMiss(t, k) == FALSE

\* LruCache::get_mut(&remote) is Some
CacheHit(t, k) == LruIndex(t, k) # 0

\* LruCache::put and LruCache::push: the entry of the key is replaced, else the
\* entry is added, in place of the least recently used one if the table is full
LruPut(t, k, v) ==
    IF LruIndex(t, k) # 0 THEN Append(LruPop(t, k), v)
    ELSE IF Len(t) >= TCP_MAX_CONNECTION_NUM THEN Append(LruPopLru(t), v)
    ELSE Append(t, v)

\* the entry counts as used up to and including the bound
UsedLatelyOrAtBound(elapsed) == elapsed <= IdleSecs

\* used_at.elapsed() < Duration::from_secs(15)
UsedLately(elapsed) == elapsed < IdleSecs

\* the loop of the Outgoing handler while the table is full: the message is
\* dropped if the least recently used entry was used lately, else that entry
\* is removed
RECURSIVE SaturationLoop(_, _)
SaturationLoop(t, at) ==
    IF Len(t) >= TCP_MAX_CONNECTION_NUM
    THEN IF UsedLately(at - LruPeekLru(t).used_at)
         THEN [drop |-> TRUE, table |-> t]
         ELSE SaturationLoop(LruPopLru(t), at)
    ELSE [drop |-> FALSE, table |-> t]

\* every announced address has its entry installed
ReusableAlways(remote) == TRUE

\* remote != SocketAddr::from(([0, 0, 0, 0], 0))
Reusable(remote) == remote # Wildcard

\* a frame of the greatest length is refused as well
TooLongAtBound(len) == len >= TCP_MAX_BUF_LEN

\* len > TCP_MAX_BUF_LEN
TooLong(len) == len > TCP_MAX_BUF_LEN

\* the receiver of the egress channel is held by the connecting task, then by
\* the write task until it ends
ReceiverAlive(sender) ==
    LET st == streams[sender.stream]
    IN  IF sender.end = "c"
        THEN st.stage \in {"connecting", "linked"} \/ st.writer["c"] = "running"
        ELSE st.writer["s"] = "running"

\* the table of the host holds the sender of the egress channel
SenderHeld(c, e) ==
    LET t == connections[HostAt(streams[c], e)]
    IN  \E i \in 1..Len(t) : t[i].sender = [stream |-> c, end |-> e]

\* unbounded_channel and the spawned connecting task of the Outgoing handler;
\* the first send fails if the task has ended already
NewStream(h, remote, buf, fail) ==
    [client |-> h, server |-> remote, remote |-> preamble[h],
     stage |-> IF fail THEN "failed" ELSE "connecting",
     accept |-> "none",
     egress |-> [e \in Ends |-> IF e = "c" /\ ~fail THEN <<buf>> ELSE <<>>],
     writing |-> [e \in Ends |-> <<>>],
     wire |-> [e \in Ends |-> <<>>],
     reader |-> [e \in Ends |-> "none"],
     writer |-> [e \in Ends |-> "none"],
     sent |-> [e \in Ends |-> <<>>],
     refused |-> [e \in Ends |-> FALSE]]

\* the last handler call of a TcpControl: the event, the time, the table before
\* and after, whether the entry of the address had a live channel, the egress
\* channels that took a buffer and the number of streams opened
TcpLast(op, h, remote) ==
    [op |-> op, host |-> h, remote |-> remote, at |-> now,
     before |-> connections[h], after |-> connections'[h],
     hit |-> LruIndex(connections[h], remote) # 0,
     alive |-> IF LruIndex(connections[h], remote) # 0
               THEN ReceiverAlive(connections[h][LruIndex(connections[h], remote)].sender)
               ELSE FALSE,
     queued |-> {s \in [stream : 1..Len(streams'), end : Ends] :
                    Len(streams'[s.stream].egress[s.end]) >
                        IF s.stream <= Len(streams)
                        THEN Len(streams[s.stream].egress[s.end]) ELSE 0},
     opened |-> Len(streams') - Len(streams),
     stream |-> 0]

\* OnEvent<Outgoing<B>> for TcpControl
OnOutgoing(h, remote, len, fail) ==
    /\ tbudget[h] > 0
    /\ fail => failures > 0
    /\ tbudget' = [tbudget EXCEPT ![h] = @ - 1]
    /\ nbuf' = nbuf + 1
    /\ busy_at' = now
    /\ LET buf == [id |-> nbuf + 1, len |-> len]
           t0 == connections[h]
           hit == CacheHit(t0, remote)
           conn == t0[LruIndex(t0, remote)]
           alive == IF hit THEN ReceiverAlive(conn.sender) ELSE FALSE
       IN  /\ IF alive
              THEN /\ ~fail
                   /\ connections' = [connections EXCEPT
                          ![h] = Append(LruPop(t0, remote), [conn EXCEPT !.used_at = now])]
                   /\ streams' = [streams EXCEPT
                          ![conn.sender.stream].egress[conn.sender.end] = Append(@, buf)]
                   /\ UNCHANGED failures
              ELSE LET t1 == IF hit THEN LruPop(t0, remote) ELSE t0
                       loop == SaturationLoop(t1, now)
                   IN  IF loop.drop
                       THEN /\ ~fail
                            /\ connections' = [connections EXCEPT ![h] = loop.table]
                            /\ UNCHANGED <<streams, failures>>
                       ELSE /\ streams' = Append(streams, NewStream(h, remote, buf, fail))
                            /\ failures' = IF fail THEN failures - 1 ELSE failures
                            /\ connections' = [connections EXCEPT ![h] =
                                   IF fail THEN loop.table
                                   ELSE LruPut(loop.table, remote,
                                            Connection(remote, Len(streams) + 1, "c", now))]
           /\ tlast' = [TcpLast("Outgoing", h, remote) EXCEPT
                  !.stream = IF Len(streams') > Len(streams) THEN Len(streams') ELSE 0]
    /\ UNCHANGED <<preamble, accepting, listener, incoming, delivered, now, ticks, sizes, dests>>
    /\ UNCHANGED <<mutexVars, sessionVars, peerVars>>

\* the connecting task: TcpStream::connect succeeds while the server holds its
\* listener; the stream waits at the listener until the accept loop takes it
Connect(c) ==
    /\ c \in 1..Len(streams)
    /\ streams[c].stage = "connecting"
    /\ accepting[streams[c].server]
    /\ streams' = [streams EXCEPT ![c].stage = "linked"]
    /\ listener' = [listener EXCEPT ![streams[c].server].backlog = Append(@, c)]
    /\ UNCHANGED <<connections, preamble, accepting, incoming, delivered, now, ticks, sizes, dests, tbudget, failures, nbuf, busy_at, tlast>>
    /\ UNCHANGED <<mutexVars, sessionVars, peerVars>>

\* the connecting task: set_nodelay and write_all(preamble) succeed, the read
\* and write tasks of the client end start
WritePreamble(c) ==
    /\ c \in 1..Len(streams)
    /\ streams[c].stage = "linked"
    /\ streams' = [streams EXCEPT ![c].stage = "connected",
                                  ![c].reader["c"] = "running",
                                  ![c].writer["c"] = "running"]
    /\ UNCHANGED <<connections, preamble, accepting, listener, incoming, delivered, now, ticks, sizes, dests, tbudget, failures, nbuf, busy_at, tlast>>
    /\ UNCHANGED <<mutexVars, sessionVars, peerVars>>

\* tcp_accept_session: listener.accept() returns the stream that connected
\* first; the loop holds it and awaits its preamble
ListenerAccept(h) ==
    /\ accepting[h]
    /\ listener[h].stream = 0
    /\ listener[h].backlog # <<>>
    /\ listener' = [listener EXCEPT ![h] = [backlog |-> Tail(@.backlog),
                                            stream |-> Head(@.backlog)]]
    /\ streams' = [streams EXCEPT ![Head(listener[h].backlog)].accept = "accepted"]
    /\ UNCHANGED <<connections, preamble, accepting, incoming, delivered, now, ticks, sizes, dests, tbudget, failures, nbuf, busy_at, tlast>>
    /\ UNCHANGED <<mutexVars, sessionVars, peerVars>>

\* tcp_accept_session: the preamble of the stream the loop holds is read and
\* parsed, and Incoming is sent to the session of the server
Accept(c) ==
    /\ c \in 1..Len(streams)
    /\ listener[streams[c].server].stream = c
    /\ streams[c].stage = "connected"
    /\ streams' = [streams EXCEPT ![c].accept = "queued"]
    /\ listener' = [listener EXCEPT ![streams[c].server].stream = 0]
    /\ incoming' = [incoming EXCEPT ![streams[c].server] = Append(@, c)]
    /\ UNCHANGED <<connections, preamble, accepting, delivered, now, ticks, sizes, dests, tbudget, failures, nbuf, busy_at, tlast>>
    /\ UNCHANGED <<mutexVars, sessionVars, peerVars>>

\* tcp_accept_session: the connecting task of the stream the loop holds has
\* failed after it had connected; the preamble cannot be read, the loop drops
\* the stream and goes on
AcceptRefused(c) ==
    /\ c \in 1..Len(streams)
    /\ listener[streams[c].server].stream = c
    /\ streams[c].stage = "failed"
    /\ streams' = [streams EXCEPT ![c].accept = "refused"]
    /\ listener' = [listener EXCEPT ![streams[c].server].stream = 0]
    /\ UNCHANGED <<connections, preamble, accepting, incoming, delivered, now, ticks, sizes, dests, tbudget, failures, nbuf, busy_at, tlast>>
    /\ UNCHANGED <<mutexVars, sessionVars, peerVars>>

\* tcp_accept_session: listener.accept() returns an error and the loop ends;
\* the TcpListener is dropped with the session, the streams that wait at it
\* are reset, none of them having a task on the side of the server, and the
\* host accepts no further stream
AcceptError(h) ==
    /\ accepting[h]
    /\ listener[h].stream = 0
    /\ failures > 0
    /\ failures' = failures - 1
    /\ accepting' = [accepting EXCEPT ![h] = FALSE]
    /\ listener' = [listener EXCEPT ![h].backlog = <<>>]
    /\ streams' = [c \in 1..Len(streams) |->
           IF \E i \in 1..Len(listener[h].backlog) : listener[h].backlog[i] = c
           THEN [streams[c] EXCEPT !.accept = "reset",
                                   !.reader["s"] = "done",
                                   !.writer["s"] = "done"]
           ELSE streams[c]]
    /\ UNCHANGED <<connections, preamble, incoming, delivered, now, ticks, sizes, dests, tbudget, nbuf, busy_at, tlast>>
    /\ UNCHANGED <<mutexVars, sessionVars, peerVars>>

\* the connecting task fails, at connect or at the preamble, and ends; the
\* receiver of the egress channel is dropped. A connect to a server that has
\* dropped its listener is refused, and the preamble may fail on a stream the
\* server has reset
ConnectFail(c) ==
    /\ c \in 1..Len(streams)
    /\ streams[c].stage \in {"connecting", "linked"}
    /\ LET closed == IF streams[c].stage = "connecting"
                     THEN ~accepting[streams[c].server]
                     ELSE streams[c].accept = "reset"
       IN  /\ closed \/ failures > 0
           /\ failures' = IF closed THEN failures ELSE failures - 1
    /\ streams' = [streams EXCEPT ![c].stage = "failed", ![c].egress["c"] = <<>>]
    /\ UNCHANGED <<connections, preamble, accepting, listener, incoming, delivered, now, ticks, sizes, dests, tbudget, nbuf, busy_at, tlast>>
    /\ UNCHANGED <<mutexVars, sessionVars, peerVars>>

\* OnEvent<Incoming> for TcpControl
OnIncoming(h) ==
    /\ incoming[h] # <<>>
    /\ incoming' = [incoming EXCEPT ![h] = Tail(@)]
    /\ LET c == Head(incoming[h])
           remote == streams[c].remote
       IN  /\ streams' = [streams EXCEPT ![c].stage = "handled",
                                         ![c].reader["s"] = "running",
                                         ![c].writer["s"] = "running"]
           /\ connections' = [connections EXCEPT ![h] =
                  IF Reusable(remote)
                  THEN LruPut(@, remote, Connection(remote, c, "s", now))
                  ELSE @]
           /\ tlast' = [TcpLast("Incoming", h, remote) EXCEPT !.stream = c]
    /\ UNCHANGED <<preamble, accepting, listener, delivered, now, ticks, sizes, dests, tbudget, failures, nbuf, busy_at>>
    /\ UNCHANGED <<mutexVars, sessionVars, peerVars>>

\* the peer of the end has dropped both halves of the stream
PeerClosed(c, e) ==
    /\ streams[c].reader[OtherEnd(e)] = "done"
    /\ streams[c].writer[OtherEnd(e)] = "done"


\* the frame at the head of the wire of end e is there with its body
BodyWritten(c, e) ==
    IF streams[c].wire[e] = <<>> THEN FALSE
    ELSE IF streams[c].writing[e] = <<>> THEN TRUE
    ELSE streams[c].writing[e][1].id # Head(streams[c].wire[e]).id

\* write_task: a buffer of the egress channel is taken and write_u64 writes
\* its length
WriteLen(c, e) ==
    /\ c \in 1..Len(streams)
    /\ streams[c].writer[e] = "running"
    /\ streams[c].writing[e] = <<>>
    /\ streams[c].egress[e] # <<>>
    /\ streams' = [streams EXCEPT ![c].egress[e] = Tail(@),
                                  ![c].writing[e] = <<Head(streams[c].egress[e])>>,
                                  ![c].wire[e] = Append(@, Head(streams[c].egress[e])),
                                  ![c].sent[e] = Append(@, Head(streams[c].egress[e]))]
    /\ UNCHANGED <<connections, preamble, accepting, listener, incoming, delivered, now, ticks, sizes, dests, tbudget, failures, nbuf, busy_at, tlast>>
    /\ UNCHANGED <<mutexVars, sessionVars, peerVars>>

\* write_task: write_all writes the buffer whose length is written, and flush
WriteBuf(c, e) ==
    /\ c \in 1..Len(streams)
    /\ streams[c].writer[e] = "running"
    /\ streams[c].writing[e] # <<>>
    /\ streams' = [streams EXCEPT ![c].writing[e] = <<>>]
    /\ UNCHANGED <<connections, preamble, accepting, listener, incoming, delivered, now, ticks, sizes, dests, tbudget, failures, nbuf, busy_at, tlast>>
    /\ UNCHANGED <<mutexVars, sessionVars, peerVars>>

\* write_task: a write fails on a stream the peer has closed, the length of
\* the next buffer or the buffer whose length is written, and the task ends
WriteError(c, e) ==
    /\ c \in 1..Len(streams)
    /\ streams[c].writer[e] = "running"
    /\ streams[c].egress[e] # <<>> \/ streams[c].writing[e] # <<>>
    /\ PeerClosed(c, e)
    /\ streams' = [streams EXCEPT ![c].egress[e] = <<>>, ![c].writer[e] = "done"]
    /\ UNCHANGED <<connections, preamble, accepting, listener, incoming, delivered, now, ticks, sizes, dests, tbudget, failures, nbuf, busy_at, tlast>>
    /\ UNCHANGED <<mutexVars, sessionVars, peerVars>>

\* write_task: receiver.recv() is None once the channel is empty and its
\* sender is dropped; the task ends and the write half is shut down
WriteExit(c, e) ==
    /\ c \in 1..Len(streams)
    /\ streams[c].writer[e] = "running"
    /\ streams[c].writing[e] = <<>>
    /\ streams[c].egress[e] = <<>>
    /\ ~SenderHeld(c, e)
    /\ streams' = [streams EXCEPT ![c].writer[e] = "done"]
    /\ UNCHANGED <<connections, preamble, accepting, listener, incoming, delivered, now, ticks, sizes, dests, tbudget, failures, nbuf, busy_at, tlast>>
    /\ UNCHANGED <<mutexVars, sessionVars, peerVars>>

\* read_task: read_u64 reads the length of a frame; a length above the bound
\* ends the task, else the task awaits the buffer
ReadLen(c, e) ==
    /\ c \in 1..Len(streams)
    /\ streams[c].reader[e] = "running"
    /\ streams[c].wire[OtherEnd(e)] # <<>>
    /\ IF TooLong(Head(streams[c].wire[OtherEnd(e)]).len)
       THEN streams' = [streams EXCEPT ![c].wire[OtherEnd(e)] = Tail(@),
                                       ![c].reader[e] = "done"]
       ELSE streams' = [streams EXCEPT ![c].reader[e] = "body"]
    /\ UNCHANGED <<connections, preamble, accepting, listener, incoming, delivered, now, ticks, sizes, dests, tbudget, failures, nbuf, busy_at, tlast>>
    /\ UNCHANGED <<mutexVars, sessionVars, peerVars>>

\* read_task: read_exact reads the buffer and it is passed to on_buf; an
\* error of on_buf ends the task
ReadBuf(c, e, refused) ==
    /\ c \in 1..Len(streams)
    /\ streams[c].reader[e] = "body"
    /\ BodyWritten(c, OtherEnd(e))
    /\ refused => failures > 0
    /\ LET frame == Head(streams[c].wire[OtherEnd(e)])
       IN  IF refused
           THEN /\ streams' = [streams EXCEPT ![c].wire[OtherEnd(e)] = Tail(@),
                                              ![c].reader[e] = "done",
                                              ![c].refused[e] = TRUE]
                /\ failures' = failures - 1
                /\ UNCHANGED delivered
           ELSE /\ streams' = [streams EXCEPT ![c].wire[OtherEnd(e)] = Tail(@),
                                              ![c].reader[e] = "running"]
                /\ delivered' = [delivered EXCEPT ![HostAt(streams[c], e)] =
                       Append(@, [id |-> frame.id, len |-> frame.len, stream |-> c, end |-> e])]
                /\ UNCHANGED failures
    /\ UNCHANGED <<connections, preamble, accepting, listener, incoming, now, ticks, sizes, dests, tbudget, nbuf, busy_at, tlast>>
    /\ UNCHANGED <<mutexVars, sessionVars, peerVars>>

\* read_task: read_u64 fails with UnexpectedEof after the peer has shut down
\* its write half, or read_exact fails for a buffer the peer never wrote; the
\* task ends
ReadEof(c, e) ==
    /\ c \in 1..Len(streams)
    /\ streams[c].writer[OtherEnd(e)] = "done"
    /\ \/ streams[c].reader[e] = "running" /\ streams[c].wire[OtherEnd(e)] = <<>>
       \/ streams[c].reader[e] = "body" /\ ~BodyWritten(c, OtherEnd(e))
    /\ streams' = [streams EXCEPT ![c].reader[e] = "done"]
    /\ UNCHANGED <<connections, preamble, accepting, listener, incoming, delivered, now, ticks, sizes, dests, tbudget, failures, nbuf, busy_at, tlast>>
    /\ UNCHANGED <<mutexVars, sessionVars, peerVars>>

\* no handler and no task of the net has a step to take
TcpQuiet ==
    /\ \A h \in Hosts :
        /\ incoming[h] = <<>>
        /\ listener[h].stream = 0
        /\ listener[h].backlog = <<>>
    /\ \A c \in 1..Len(streams) :
        /\ streams[c].stage \notin {"connecting", "linked"}
        /\ \A e \in Ends :
            /\ streams[c].writer[e] = "running" =>
                   /\ streams[c].egress[e] = <<>>
                   /\ streams[c].writing[e] = <<>>
                   /\ SenderHeld(c, e)
            /\ streams[c].reader[e] # "body"
            /\ streams[c].reader[e] = "running" =>
                   /\ streams[c].wire[OtherEnd(e)] = <<>>
                   /\ streams[c].writer[OtherEnd(e)] # "done"

\* time passes
Tick(d) ==
    /\ ticks > 0
    /\ ticks' = ticks - 1
    /\ now' = now + d
    /\ UNCHANGED <<connections, preamble, accepting, listener, streams, incoming, delivered, sizes, dests, tbudget, failures, nbuf, busy_at, tlast>>
    /\ UNCHANGED <<mutexVars, sessionVars, peerVars>>

\* TcpControl::new on every host, announcing the addresses pre, and
\* tcp_accept_session on the hosts of listen; the hosts send sends buffers of
\* the lengths lens to the addresses to
TcpNew(H, listen, pre, sends, lens, to, fails, passes) ==
    /\ connections = [h \in H |-> <<>>]
    /\ preamble = pre
    /\ streams = <<>>
    /\ incoming = [h \in H |-> <<>>]
    /\ delivered = [h \in H |-> <<>>]
    /\ now = 0
    /\ ticks = passes
    /\ sizes = lens
    /\ dests = to
    /\ tbudget = sends
    /\ failures = fails
    /\ nbuf = 0
    /\ busy_at = 0
    /\ accepting = [h \in H |-> h \in listen]
    /\ listener = [h \in H |-> [backlog |-> <<>>, stream |-> 0]]
    /\ tlast = [op |-> "None", host |-> 0, remote |-> 0, at |-> 0, before |-> <<>>,
                after |-> <<>>, hit |-> FALSE, alive |-> FALSE, queued |-> {},
                opened |-> 0, stream |-> 0]

\* the net of the other runs is not used
TcpIdle == TcpNew({}, {}, <<>>, <<>>, <<>>, <<>>, 0, 0)

\* ------------------------------------------------------------------ entropy Peer
\* crates/entropy/src/lib.rs: one Peer with its codec worker. A chunk buffer
\* is a sequence of bytes; the erasure code is a black box: a fragment names
\* its index and the buffer it encodes, a decoder the indices it has absorbed
Chunks == 1..MaxChunks
Indices == 0..(chunk_n - 1)
SelfId == "self"
OtherPeer == "other"
ThirdPeer == "third"

\* a chunk buffer of n bytes
Buf(n) == [i \in 1..n |-> 1]

\* the buffers handed to Put: of the expected length, shorter and longer
PutBufs == {Buf(n) : n \in 0..(fragment_len * chunk_k + 1)}

\* the entry stays in the map
MapKeep(map, key) == map

\* HashMap::insert and HashMap::remove
MapInsert(map, key, value) ==
    [k \in DOMAIN map \cup {key} |-> IF k = key THEN value ELSE map[k]]
MapRemove(map, key) == [k \in DOMAIN map \ {key} |-> map[k]]

\* Encoder::new(&buf, 1) and Encoder::encode(index)
EncoderNew(buf) == [buf |-> buf]
EncoderEncode(encoder, index) == [index |-> index, buf |-> encoder.buf]

\* Decoder::new, Decoder::decode (TRUE while more fragments are needed) and
\* Decoder::recover
DecoderNew == [got |-> {}, buf |-> <<>>]
DecoderDecode(decoder, index, fragment) ==
    [decoder |-> [got |-> decoder.got \cup {index}, buf |-> fragment.buf],
     more |-> Cardinality(decoder.got \cup {index}) < chunk_k]
DecoderRecover(decoder) == decoder.buf

\* Option<Decoder>
NoDecoder == [is_some |-> FALSE, got |-> {}, buf |-> <<>>]
SomeDecoder(decoder) == [is_some |-> TRUE, got |-> decoder.got, buf |-> decoder.buf]
DecoderOf(opt) == [got |-> opt.got, buf |-> opt.buf]

\* Option::take leaves None in the download state
OptionTake(opt) == NoDecoder

\* UploadState, DownloadState
UploadState(encoder) == [encoder |-> encoder, pending |-> <<>>]
DownloadState(decoder) == [decoder |-> decoder, pending |-> <<>>, decoded |-> {}]

\* the work items of the codec worker and the events of the Peer; as history
\* an encode work and its Encode event name the peer whose InviteOk started it
NewEncoderWork(chunk, buf) == [type |-> "NewEncoder", chunk |-> chunk, index |-> 0,
                               data |-> buf, decoder |-> DecoderNew, peer |-> SelfId]
EncodeWork(chunk, index, encoder, peer_id) ==
    [type |-> "Encode", chunk |-> chunk, index |-> index,
     data |-> encoder.buf, decoder |-> DecoderNew, peer |-> peer_id]
DecodeWork(chunk, index, fragment, decoder) ==
    [type |-> "Decode", chunk |-> chunk, index |-> index, data |-> fragment.buf,
     decoder |-> decoder, peer |-> SelfId]
PeerEvent(type, chunk, index, data, decoder) ==
    [type |-> type, chunk |-> chunk, index |-> index, data |-> data, decoder |-> decoder,
     peer |-> SelfId]

\* the history of the downloads of a chunk: a download state is put in place
DownloadStat(gets, recovers) ==
    [gets |-> gets, recovers |-> recovers, buffered |-> {}, fed |-> [i \in Indices |-> 0]]

\* any length of buffer is accepted
AnyLen(buf) == TRUE

\* buf.len() != self.fragment_len * self.chunk_k as usize is false
ChunkLen(buf) == Len(buf) = fragment_len * chunk_k

\* the last handler call of the Peer: the event, whether the handler returned
\* Ok, whether the chunk had a download when the event arrived, whether the
\* handler left uploads, downloads and persists as they were, and the
\* numbers of work items it submitted and of messages it sent
PeerLast(op, chunk, len, ok) ==
    [op |-> op, chunk |-> chunk, len |-> len, ok |-> ok,
     downloading |-> chunk \in DOMAIN downloads,
     same |-> uploads' = uploads /\ downloads' = downloads /\ persists' = persists,
     submitted |-> Len(works') - Len(works),
     sent |-> Len(netOut') - Len(netOut)]

\* the handler returns an error or panics: the session of the Peer ends
PeerFails(op, chunk, len) ==
    /\ peer_failed' = TRUE
    /\ plast' = PeerLast(op, chunk, len, FALSE)

PeerOk(op, chunk, len) ==
    /\ UNCHANGED peer_failed
    /\ plast' = PeerLast(op, chunk, len, TRUE)

\* OnEvent<Put> for Peer
OnPut(chunk, buf) ==
    /\ ~peer_failed
    /\ pbudget > 0
    /\ pbudget' = pbudget - 1
    /\ IF ~ChunkLen(buf)
       THEN /\ UNCHANGED works
            /\ UNCHANGED <<uploads, downloads, persists, peerQ, netOut, blobOut, upcalls, dstat>>
            /\ PeerFails("Put", chunk, Len(buf))
       ELSE /\ works' = Append(works, NewEncoderWork(chunk, buf))
            /\ UNCHANGED <<uploads, downloads, persists, peerQ, netOut, blobOut, upcalls, dstat>>
            /\ PeerOk("Put", chunk, Len(buf))
    /\ UNCHANGED pulls
    /\ UNCHANGED <<mutexVars, sessionVars, tcpVars>>

\* OnEvent<Get> for Peer
OnGet(chunk) ==
    /\ ~peer_failed
    /\ pbudget > 0
    /\ pbudget' = pbudget - 1
    /\ downloads' = MapInsert(downloads, chunk, DownloadState(SomeDecoder(DecoderNew)))
    /\ dstat' = [dstat EXCEPT ![chunk] =
                     DownloadStat(IF chunk \in DOMAIN downloads THEN @.gets ELSE @.gets + 1,
                                  @.recovers)]
    /\ IF chunk \in DOMAIN downloads
       THEN /\ UNCHANGED netOut
            /\ UNCHANGED <<uploads, persists, works, peerQ, blobOut, upcalls>>
            /\ PeerFails("Get", chunk, 0)
       ELSE /\ netOut' = Append(netOut, [type |-> "Pull", chunk |-> chunk, to |-> "Multicast",
                                         index |-> 0, peer_id |-> SelfId])
            /\ UNCHANGED <<uploads, persists, works, peerQ, blobOut, upcalls>>
            /\ PeerOk("Get", chunk, 0)
    /\ UNCHANGED pulls
    /\ UNCHANGED <<mutexVars, sessionVars, tcpVars>>

\* the messages of a type the Peer has sent for a chunk
Sent(type, chunk) ==
    {i \in 1..Len(netOut) : netOut[i].type = type /\ netOut[i].chunk = chunk}

\* the Peer has answered an Invite of the chunk with InviteOk, and the
\* SendFragment blob of the chunk has reached it while it had no download of
\* the chunk: the fragment it is to persist has been handed to it
FragmentHanded(chunk) ==
    /\ Sent("InviteOk", chunk) # {}
    /\ plast.op = "RecvBlob"
    /\ plast.chunk = chunk
    /\ ~plast.downloading

\* OnEvent<Recv<Pull>> for Peer: the handler returns Ok(()); a Pull that
\* reaches the host after the session of the Peer has ended is handled by nobody
OnRecvPull(chunk, peer_id) ==
    /\ pbudget > 0
    /\ pbudget' = pbudget - 1
    /\ pulls' = pulls \cup {[chunk |-> chunk, peer_id |-> peer_id,
                              handed |-> FragmentHanded(chunk)]}
    /\ UNCHANGED <<uploads, downloads, persists, works, peerQ, netOut, blobOut, upcalls, dstat>>
    /\ IF peer_failed
       THEN UNCHANGED <<peer_failed, plast>>
       ELSE PeerOk("RecvPull", chunk, 0)
    /\ UNCHANGED <<mutexVars, sessionVars, tcpVars>>

\* OnEvent<Recv<Invite>> for Peer
OnRecvInvite(chunk, peer_id) ==
    /\ ~peer_failed
    /\ pbudget > 0
    /\ pbudget' = pbudget - 1
    /\ netOut' = IF peer_id = SelfId THEN netOut
                 ELSE Append(netOut, [type |-> "InviteOk", chunk |-> chunk, to |-> peer_id,
                                      index |-> 0, peer_id |-> SelfId])
    /\ UNCHANGED <<uploads, downloads, persists, works, peerQ, blobOut, upcalls, dstat>>
    /\ PeerOk("RecvInvite", chunk, 0)
    /\ UNCHANGED pulls
    /\ UNCHANGED <<mutexVars, sessionVars, tcpVars>>

\* OnEvent<Recv<InviteOk>> for Peer
OnRecvInviteOk(chunk, index, peer_id) ==
    /\ ~peer_failed
    /\ pbudget > 0
    /\ pbudget' = pbudget - 1
    /\ IF chunk \notin DOMAIN uploads
       THEN UNCHANGED <<uploads, works>>
       ELSE /\ uploads' = [uploads EXCEPT ![chunk].pending = MapInsert(@, index, peer_id)]
            /\ works' = Append(works, EncodeWork(chunk, index, uploads[chunk].encoder, peer_id))
    /\ UNCHANGED <<downloads, persists, peerQ, netOut, blobOut, upcalls, dstat>>
    /\ PeerOk("RecvInviteOk", chunk, 0)
    /\ UNCHANGED pulls
    /\ UNCHANGED <<mutexVars, sessionVars, tcpVars>>

\* every value counts as new to the set
InsertsAny(set, value) == TRUE

\* HashSet::insert returns true when the set did not hold the value
Inserts(set, value) == value \notin set

\* Peer::submit_decode
submit_decode(decoder, chunk, index, fragment) ==
    Append(works, DecodeWork(chunk, index, fragment, decoder))

\* OnEvent<RecvBlob<SendFragment>> for Peer
OnRecvBlob(chunk, index) ==
    /\ ~peer_failed
    /\ pbudget > 0
    /\ pbudget' = pbudget - 1
    /\ UNCHANGED <<uploads, persists, peerQ, netOut, blobOut, upcalls>>
    /\ LET fragment == EncoderEncode(EncoderNew(Buf(fragment_len * chunk_k)), index)
       IN  IF chunk \in DOMAIN downloads
           THEN /\ IF ~Inserts(downloads[chunk].decoded, index)
                   THEN UNCHANGED <<downloads, works, dstat>>
                   ELSE IF downloads[chunk].decoder.is_some
                   THEN /\ downloads' = [downloads EXCEPT
                               ![chunk].decoded = @ \cup {index},
                               ![chunk].decoder = OptionTake(@)]
                        /\ works' = submit_decode(DecoderOf(downloads[chunk].decoder),
                                                  chunk, index, fragment)
                        /\ UNCHANGED dstat
                   ELSE /\ downloads' = [downloads EXCEPT
                               ![chunk].decoded = @ \cup {index},
                               ![chunk].pending = MapInsert(@, index, fragment)]
                        /\ dstat' = [dstat EXCEPT ![chunk].buffered = @ \cup {index}]
                        /\ UNCHANGED works
                /\ PeerOk("RecvBlob", chunk, 0)
           ELSE /\ UNCHANGED <<downloads, works, dstat>>
                /\ PeerFails("RecvBlob", chunk, 0)
    /\ UNCHANGED pulls
    /\ UNCHANGED <<mutexVars, sessionVars, tcpVars>>

\* the executor runs a work item to its end; the closure sends its event to
\* the session of the Peer
WorkDone(i) ==
    /\ i \in 1..Len(works)
    /\ works' = SubSeq(works, 1, i - 1) \o SubSeq(works, i + 1, Len(works))
    /\ LET work == works[i]
           decoded == DecoderDecode(work.decoder, work.index, [index |-> work.index, buf |-> work.data])
       IN  /\ peerQ' = Append(peerQ,
               IF work.type = "NewEncoder"
               THEN PeerEvent("NewEncoder", work.chunk, 0, EncoderNew(work.data).buf, DecoderNew)
               ELSE IF work.type = "Encode"
               THEN [PeerEvent("Encode", work.chunk, work.index,
                               EncoderEncode(EncoderNew(work.data), work.index).buf, DecoderNew)
                        EXCEPT !.peer = work.peer]
               ELSE IF decoded.more
               THEN PeerEvent("Decode", work.chunk, 0, <<>>, decoded.decoder)
               ELSE PeerEvent("Recover", work.chunk, 0, DecoderRecover(decoded.decoder), DecoderNew))
           /\ dstat' = IF work.type # "Decode" THEN dstat
                       ELSE [dstat EXCEPT
                                ![work.chunk].fed[work.index] = @ + 1,
                                ![work.chunk].recovers = IF decoded.more THEN @ ELSE @ + 1]
    /\ UNCHANGED <<uploads, downloads, persists, netOut, blobOut, upcalls, peer_failed, pbudget, plast>>
    /\ UNCHANGED pulls
    /\ UNCHANGED <<mutexVars, sessionVars, tcpVars>>

\* OnEvent<NewEncoder> for Peer
OnNewEncoder ==
    /\ ~peer_failed
    /\ peerQ # <<>>
    /\ Head(peerQ).type = "NewEncoder"
    /\ peerQ' = Tail(peerQ)
    /\ UNCHANGED <<downloads, persists, works, blobOut, upcalls, pbudget, dstat>>
    /\ LET chunk == Head(peerQ).chunk
       IN  /\ uploads' = MapInsert(uploads, chunk, UploadState(EncoderNew(Head(peerQ).data)))
           /\ IF chunk \in DOMAIN uploads
              THEN /\ UNCHANGED netOut
                   /\ PeerFails("NewEncoder", chunk, 0)
              ELSE /\ netOut' = Append(netOut, [type |-> "Invite", chunk |-> chunk,
                                      to |-> "Multicast", index |-> 0, peer_id |-> SelfId])
                   /\ PeerOk("NewEncoder", chunk, 0)
    /\ UNCHANGED pulls
    /\ UNCHANGED <<mutexVars, sessionVars, tcpVars>>

\* OnEvent<Encode> for Peer
OnEncode ==
    /\ ~peer_failed
    /\ peerQ # <<>>
    /\ Head(peerQ).type = "Encode"
    /\ peerQ' = Tail(peerQ)
    /\ LET event == Head(peerQ)
       IN  /\ blobOut' =
                  IF event.chunk \in DOMAIN uploads
                  THEN IF event.index \in DOMAIN uploads[event.chunk].pending
                       THEN Append(blobOut, [to |-> uploads[event.chunk].pending[event.index],
                                             chunk |-> event.chunk, index |-> event.index,
                                             fragment |-> event.data, for |-> event.peer])
                       ELSE blobOut
                  ELSE blobOut
           /\ UNCHANGED <<uploads, downloads, persists, works, netOut, upcalls, pbudget, dstat>>
           /\ PeerOk("Encode", event.chunk, 0)
    /\ UNCHANGED pulls
    /\ UNCHANGED <<mutexVars, sessionVars, tcpVars>>

\* OnEvent<Decode> for Peer; pending.keys().next() is any of the keys, and
\* assert!(state.decoder.is_none()) panics when the download holds a decoder
OnDecode ==
    /\ ~peer_failed
    /\ peerQ # <<>>
    /\ Head(peerQ).type = "Decode"
    /\ peerQ' = Tail(peerQ)
    /\ LET chunk == Head(peerQ).chunk
           decoder == Head(peerQ).decoder
       IN  /\ UNCHANGED <<uploads, persists, netOut, blobOut, upcalls, pbudget, dstat>>
           /\ IF chunk \in DOMAIN downloads
              THEN IF downloads[chunk].decoder.is_some
                   THEN /\ UNCHANGED <<downloads, works>>
                        /\ PeerFails("Decode", chunk, 0)
                   ELSE IF DOMAIN downloads[chunk].pending # {}
                   THEN /\ \E index \in DOMAIN downloads[chunk].pending :
                              /\ downloads' = [downloads EXCEPT ![chunk].pending = MapRemove(@, index)]
                              /\ works' = submit_decode(decoder, chunk, index,
                                                        downloads[chunk].pending[index])
                        /\ PeerOk("Decode", chunk, 0)
                   ELSE /\ downloads' = [downloads EXCEPT ![chunk].decoder = SomeDecoder(decoder)]
                        /\ UNCHANGED works
                        /\ PeerOk("Decode", chunk, 0)
              ELSE /\ UNCHANGED <<downloads, works>>
                   /\ PeerOk("Decode", chunk, 0)
    /\ UNCHANGED pulls
    /\ UNCHANGED <<mutexVars, sessionVars, tcpVars>>

\* OnEvent<Recover> for Peer
OnRecover ==
    /\ ~peer_failed
    /\ peerQ # <<>>
    /\ Head(peerQ).type = "Recover"
    /\ peerQ' = Tail(peerQ)
    /\ LET chunk == Head(peerQ).chunk
       IN  IF chunk \in DOMAIN downloads
           THEN /\ downloads' = MapRemove(downloads, chunk)
                /\ upcalls' = Append(upcalls, [type |-> "GetOk", chunk |-> chunk,
                                               buf |-> Head(peerQ).data])
                /\ UNCHANGED <<uploads, persists, works, netOut, blobOut, pbudget, dstat>>
                /\ PeerOk("Recover", chunk, 0)
           ELSE /\ UNCHANGED <<uploads, downloads, persists, works, netOut, blobOut, upcalls, pbudget, dstat>>
                /\ PeerFails("Recover", chunk, 0)
    /\ UNCHANGED pulls
    /\ UNCHANGED <<mutexVars, sessionVars, tcpVars>>

\* a Peer as constructed, handling events events from its application and the net
PeerNew(events) ==
    /\ uploads = <<>>
    /\ downloads = <<>>
    /\ persists = <<>>
    /\ works = <<>>
    /\ peerQ = <<>>
    /\ netOut = <<>>
    /\ blobOut = <<>>
    /\ upcalls = <<>>
    /\ peer_failed = FALSE
    /\ pbudget = events
    /\ plast = [op |-> "None", chunk |-> 0, len |-> 0, ok |-> TRUE,
                downloading |-> FALSE, same |-> TRUE, submitted |-> 0, sent |-> 0]
    /\ dstat = [c \in Chunks |-> DownloadStat(0, 0)]
    /\ pulls = {}

\* the Peer of the other runs is not used
PeerIdle == PeerNew(0)

\* ------------------------------------------------------------------ specifications
\* Session::new; the run issues calls calls of unset
SessionNew(calls) ==
    /\ timer_id = 0
    /\ timers = {}
    /\ squeue = <<>>
    /\ tasks = {}
    /\ handled = {}
    /\ cancelled = {}
    /\ skipped = {}
    /\ slast = [op |-> "None", id |-> 0, known |-> FALSE, delivered |-> FALSE,
                ok |-> TRUE, same |-> TRUE]
    /\ sbudget = calls
    /\ senq = 0
    /\ hlog = <<>>
    /\ sklog = {}

\* the session of the timer runs is not used
SessionIdle == SessionNew(0)

\* ------------------------------------------------------------------ verifiable::Processor
\* number of faulty processors the variant is constructed for
num_faulty == 1

\* Ordered { clock, after, id }
Ordered(c, after, id) == [clock |-> c, after |-> after, id |-> id]

\* the last handler call of the variant: the n-th call, of which processor,
\* for a clocked message or an Ordered, the Ordered received, and whether it
\* was discarded
VerCall(n, op, p, ordered, discarded) ==
    [n |-> n, op |-> op, node |-> p, ordered |-> ordered, discarded |-> discarded]
NoCall == VerCall(0, "None", 0, Ordered(NoClock, <<>>, 0), FALSE)

\* no request is skipped as ordered already
SkipsNone(c, last) == FALSE

\* clock.arbitrary_cmp(&self.last_ordered).is_le()
SkipsOrdered(c, last) == arbitrary_cmp(c, last) \in {"Less", "Equal"}

\* the first loop of check_requested: for the requests in their order, one
\* not above last_ordered is skipped, one that every latests[j] dominates is
\* answered with an Ordered sent to its id and becomes last_ordered, and the
\* first one that is not dominated ends the loop
RECURSIVE OrderLoop(_, _, _, _, _, _)
OrderLoop(p, lat, all, reqs, last, outs) ==
    IF reqs = <<>> THEN [last_ordered |-> last, outs |-> outs]
    ELSE LET c == Head(reqs)[1]
             id == Head(reqs)[2]
         IN  IF SkipsOrdered(c, last) THEN OrderLoop(p, lat, all, Tail(reqs), last, outs)
             ELSE IF \A j \in DOMAIN lat : partial_cmp(lat[j], c) \in {"Greater", "Equal"}
             THEN OrderLoop(p, lat, all, Tail(reqs), c,
                            Append(outs, [to |-> id, ordered |-> Ordered(c, all, p)]))
             ELSE [last_ordered |-> last, outs |-> outs]

\* the filter over proof.values(): the clock of the certificate equals c
Counts(held, c) == partial_cmp(held.clock, c) = "Equal"

\* the second part of check_requested: whether the RequestOk upcall is sent
Certified(p, reqs, prf) ==
    /\ reqs # <<>>
    /\ reqs[1][2] = p
    /\ Cardinality({k \in DOMAIN prf : Counts(prf[k], reqs[1][1])}) > num_faulty

\* verifiable::Processor::check_requested
verifiable_check_requested(p, lat, reqs, last, prf, req) ==
    LET loop == OrderLoop(p, lat, reqs, reqs, last, <<>>)
    IN  [last_ordered |-> loop.last_ordered, outs |-> loop.outs,
         grant |-> req /\ Certified(p, reqs, prf)]

\* handle_clocked with into_addr = |_| All: the RequestOk goes to every processor
ReplyAll(p, reply) ==
    [i \in 1..Len(reply) |-> SendEvent(Nodes, reply[i].inner, ProcTag(p, Nodes))]

\* the state the variant is left in by check_requested
VerChecked(p, v) ==
    /\ last_ordered' = [last_ordered EXCEPT ![p] = v.last_ordered]
    /\ ordOut' = [ordOut EXCEPT ![p] = @ \o v.outs]
    /\ requesting' = [requesting EXCEPT ![p] = IF v.grant THEN FALSE ELSE @]
    /\ app' = [app EXCEPT ![p] = IF v.grant THEN "holding" ELSE @]
    /\ vgrants' = [vgrants EXCEPT ![p] = IF v.grant THEN Append(@, requests'[p][1][1]) ELSE @]

\* OnEvent<Recv<Clocked<super::Message, C>>> for verifiable::Processor
VerRecv(p) ==
    /\ ~crashed[p]
    /\ procQ[p] # <<>>
    /\ LET ev == Head(procQ[p])
           h == handle_clocked(p, Clocked(ev.clock, ev.inner, ev.tag))
           v == verifiable_check_requested(p, h.latests, h.requests, last_ordered[p],
                                           proof[p], requesting[p])
       IN  /\ procQ' = [procQ EXCEPT ![p] = Tail(@)]
           /\ latests' = [latests EXCEPT ![p] = h.latests]
           /\ requests' = [requests EXCEPT ![p] = h.requests]
           /\ causalQ' = [causalQ EXCEPT ![p] = @ \o ReplyAll(p, h.reply)]
           /\ crashed' = [crashed EXCEPT ![p] = h.err]
           /\ IF h.err THEN UNCHANGED <<last_ordered, ordOut, requesting, app, vgrants>>
              ELSE VerChecked(p, v)
           /\ vlast' = VerCall(vlast.n + 1, "Clocked", p, Ordered(NoClock, <<>>, 0), FALSE)
    /\ UNCHANGED <<causalVars, chan, budget, histVars, mlast, proof>>
    /\ UNCHANGED <<sessionVars, tcpVars, peerVars>>

\* every Ordered received takes the place of the one held
DiscardsNone(held, ordered) == FALSE

\* other_ordered.clock.partial_cmp(&ordered.clock) is Greater or Equal
Discards(held, ordered) == partial_cmp(held.clock, ordered.clock) \in {"Greater", "Equal"}

\* OnEvent<Recv<Verifiable<Ordered<C>>>> for verifiable::Processor
VerRecvOrdered(p, ordered) ==
    /\ ~crashed[p]
    /\ budget[p] > 0
    /\ budget' = [budget EXCEPT ![p] = @ - 1]
    /\ LET discarded == ordered.id \in DOMAIN proof[p] /\ Discards(proof[p][ordered.id], ordered)
           prf == MapInsert(proof[p], ordered.id, ordered)
           v == verifiable_check_requested(p, latests[p], requests[p], last_ordered[p],
                                           prf, requesting[p])
       IN  /\ UNCHANGED requests
           /\ IF discarded THEN UNCHANGED <<proof, last_ordered, ordOut, requesting, app, vgrants>>
              ELSE /\ proof' = [proof EXCEPT ![p] = prf]
                   /\ VerChecked(p, v)
           /\ vlast' = VerCall(vlast.n + 1, "Ordered", p, ordered, discarded)
    /\ UNCHANGED <<causalVars, latests, wireVars, crashed, histVars, mlast>>
    /\ UNCHANGED <<sessionVars, tcpVars, peerVars>>

\* Causal::new and Processor::new on every node, the causal session of each
\* holding the events queued
InitNodesAt(N, inputs, zero, queued) ==
    /\ clock = [p \in N |-> zero[p]]
    /\ pending_recv = [p \in N |-> None]
    /\ pending_send = [p \in N |-> <<>>]
    /\ latests = [p \in N |-> [j \in N |-> clock_zero(j)]]
    /\ requests = [p \in N |-> <<>>]
    /\ requesting = [p \in N |-> FALSE]
    /\ causalQ = [p \in N |-> queued]
    /\ procQ = [p \in N |-> <<>>]
    /\ chan = [pr \in N \X N |-> <<>>]
    /\ crashed = [p \in N |-> FALSE]
    /\ app = [p \in N |-> "idle"]
    /\ budget = [p \in N |-> inputs[p]]
    /\ maxDeliv = [p \in N |-> NoClock]
    /\ got = [p \in N |-> <<>>]
    /\ nsent = [p \in N |-> 0]
    /\ curReq = [p \in N |-> NoClock]
    /\ mlast = [op |-> "None", node |-> 0, replaced |-> FALSE]
    /\ last_ordered = [p \in N |-> clock_zero(p)]
    /\ proof = [p \in N |-> <<>>]
    /\ ordOut = [p \in N |-> <<>>]
    /\ vgrants = [p \in N |-> <<>>]
    /\ vlast = NoCall

\* the nodes as the sessions of boson_mutex start them: no event is queued,
\* and nothing sends Init to the causal session
InitNodes(N, inputs) == InitNodesAt(N, inputs, [p \in N |-> clock_zero(p)], <<>>)

\* no event waits in a processor session; no message waits in the net
ProcIdle == \A p \in Nodes : procQ[p] = <<>>
NetIdle == \A pr \in DOMAIN chan : chan[pr] = <<>>

\* two processors running the Lamport mutex; of the program's schedules the
\* runs take those where a processor session handles its event as soon as it
\* is sent, and the net hands a message over before the sessions go on
Init == InitNodes(0..1, [p \in 0..1 |-> IF p = 0 THEN MaxRequests ELSE MaxRequests - 1]) /\ SessionIdle /\ TcpIdle /\ PeerIdle

Next ==
    \/ \E p \in Nodes : ProcRecv(p)
    \/ \E s \in Nodes, p \in Nodes : ProcIdle /\ NetDeliver(s, p)
    \/ \E p \in Nodes : ProcIdle /\ NetIdle /\ CausalRecv(p)
    \/ \E p \in Nodes : ProcIdle /\ NetIdle /\ CausalSend(p)
    \/ \E p \in Nodes : ProcIdle /\ NetIdle /\ CausalUpdateOk(p)
    \/ \E p \in Nodes : ProcIdle /\ NetIdle /\ LocalRequest(p)
    \/ \E p \in Nodes : ProcIdle /\ NetIdle /\ LocalRelease(p)

Spec == Init /\ [][Next]_vars

\* the nodes of the runs with fair sessions
LiveNodes == 0..1

\* the mutex with sessions that go on taking the events they hold, a net
\* that hands over every message, and applications that release what they
\* are granted
FairMutex ==
    \A p \in LiveNodes :
        /\ WF_vars(ProcRecv(p))
        /\ WF_vars(ProcIdle /\ NetIdle /\ CausalRecv(p))
        /\ WF_vars(ProcIdle /\ NetIdle /\ CausalSend(p))
        /\ WF_vars(ProcIdle /\ NetIdle /\ CausalUpdateOk(p))
        /\ WF_vars(ProcIdle /\ NetIdle /\ LocalRelease(p))
        /\ \A s \in LiveNodes : WF_vars(ProcIdle /\ NetDeliver(s, p))

\* the connection to a node that has ended is closed, and what was sent
\* over it is lost
NetLost(s, p) ==
    /\ crashed[p]
    /\ chan[<<s, p>>] # <<>>
    /\ chan' = [chan EXCEPT ![<<s, p>>] = Tail(@)]
    /\ UNCHANGED <<causalVars, procVars, causalQ, procQ, envVars, histVars>>
    /\ UNCHANGED <<mlast, verVars, sessionVars, tcpVars, peerVars>>

\* the application of node 1 asks once that of node 0 has asked all it will
LateRequest(p) == (p = 1 => budget[0] = 0) /\ LocalRequest(p)

NextMutexLive ==
    \/ \E p \in Nodes : ProcRecv(p)
    \/ \E s \in Nodes, p \in Nodes : ProcIdle /\ NetDeliver(s, p)
    \/ \E p \in Nodes : ProcIdle /\ NetIdle /\ CausalRecv(p)
    \/ \E p \in Nodes : ProcIdle /\ NetIdle /\ CausalSend(p)
    \/ \E p \in Nodes : ProcIdle /\ NetIdle /\ CausalUpdateOk(p)
    \/ \E p \in Nodes : ProcIdle /\ NetIdle /\ LateRequest(p)
    \/ \E p \in Nodes : ProcIdle /\ NetIdle /\ LocalRelease(p)
    \/ \E s \in Nodes, p \in Nodes : NetLost(s, p)

SpecMutexLive ==
    /\ Init /\ [][NextMutexLive]_vars /\ FairMutex
    /\ \A s \in LiveNodes : \A p \in LiveNodes : WF_vars(NetLost(s, p))

\* a generic application over the Causal layer; it takes a forwarded message
\* as soon as the layer sends it, which no handler of the layer can observe
NextCausal ==
    \/ \E p \in Nodes : AppRecv(p)
    \/ \E s \in Nodes, p \in Nodes : ProcIdle /\ NetDeliver(s, p)
    \/ \E p \in Nodes : ProcIdle /\ CausalRecv(p)
    \/ \E p \in Nodes : ProcIdle /\ CausalSend(p)
    \/ \E p \in Nodes : ProcIdle /\ CausalUpdateOk(p)
    \/ \E p \in Nodes : \E dest \in {{d} : d \in Nodes} \cup {Nodes} :
            ProcIdle /\ AppSend(p, dest)

\* two nodes, the first sending once more than the second
InitCausal == InitNodes(0..1, [p \in 0..1 |-> IF p = 0 THEN MaxSends ELSE MaxSends - 1]) /\ SessionIdle /\ TcpIdle /\ PeerIdle

SpecCausal == InitCausal /\ [][NextCausal]_vars

\* the same two nodes with Init sent to every causal session before any
\* other event, so that the layer starts with a clock update in flight
InitStarted ==
    /\ InitNodesAt(0..1, [p \in 0..1 |-> IF p = 0 THEN MaxSends ELSE MaxSends - 1],
                   [p \in 0..1 |-> clock_zero(p)], <<InitEvent>>)
    /\ SessionIdle /\ TcpIdle /\ PeerIdle

NextStarted ==
    \/ NextCausal
    \/ \E p \in Nodes : ProcIdle /\ CausalInit(p)

SpecStarted == InitStarted /\ [][NextStarted]_vars

\* two nodes over the Lamport clock service, each Causal layer constructed
\* with the least clock or with one whose counter is near the greatest
InitLamport ==
    /\ \E zero \in [0..1 -> {0, u32_MAX - 1}] :
           InitNodesAt(0..1, [p \in 0..1 |-> MaxSends - 1], [p \in 0..1 |-> <<zero[p], p>>], <<>>)
    /\ SessionIdle /\ TcpIdle /\ PeerIdle

SpecLamport == InitLamport /\ [][NextCausal]_vars

\* two nodes sending once each, with sessions that go on taking the events
\* they hold, a clock service whose answers arrive, and a net and an
\* application that take what is handed to them
InitLive == InitNodes(LiveNodes, [p \in LiveNodes |-> MaxSends - 1]) /\ SessionIdle /\ TcpIdle /\ PeerIdle

FairCausal ==
    \A p \in LiveNodes :
        /\ WF_vars(AppRecv(p))
        /\ WF_vars(ProcIdle /\ CausalRecv(p))
        /\ WF_vars(ProcIdle /\ CausalSend(p))
        /\ WF_vars(ProcIdle /\ CausalUpdateOk(p))
        /\ \A s \in LiveNodes : WF_vars(ProcIdle /\ NetDeliver(s, p))

SpecLive == InitLive /\ [][NextCausal]_vars /\ FairCausal

\* three nodes, the first sending once more than the second and the third
\* only receiving
InitDelivery ==
    /\ InitNodes(0..2, [p \in 0..2 |-> IF p = 0 THEN MaxSends ELSE IF p = 1 THEN MaxSends - 1 ELSE 0])
    /\ SessionIdle /\ TcpIdle /\ PeerIdle

\* of the sends of the application the runs take those to other nodes
NextDelivery ==
    \/ \E p \in Nodes : AppRecv(p)
    \/ \E s \in Nodes, p \in Nodes : ProcIdle /\ NetDeliver(s, p)
    \/ \E p \in Nodes : ProcIdle /\ CausalRecv(p)
    \/ \E p \in Nodes : ProcIdle /\ CausalSend(p)
    \/ \E p \in Nodes : ProcIdle /\ CausalUpdateOk(p)
    \/ \E p \in Nodes : \E dest \in (SUBSET (Nodes \ {p})) \ {{}} :
            ProcIdle /\ AppSend(p, dest)

SpecDelivery == InitDelivery /\ [][NextDelivery]_vars

\* one processor of two, fed with clocked messages in any order
InjectClocked ==
    {Clocked(<<x[1], x[2]>>, [type |-> x[3], id |-> x[2]], ProcTag(x[2], {0})) :
        x \in (0..MaxInjectClock) \X (0..1) \X {"Request", "RequestOk", "Release"}}

InitProc == InitNodes(0..1, [p \in 0..1 |-> IF p = 0 THEN MaxInject + 1 ELSE 0]) /\ SessionIdle /\ TcpIdle /\ PeerIdle

NextProc ==
    \/ \E m \in InjectClocked : Inject(0, m)
    \/ ProcRecv(0)
    \/ LocalRequest(0)

SpecProc == InitProc /\ [][NextProc]_vars

\* two nodes whose application asks at any time and whose clock service
\* answers with any clock, the first taking one input more than the second,
\* and an entropy Peer that is handed Puts
InitFatal ==
    /\ InitNodes(0..1, [p \in 0..1 |-> IF p = 0 THEN MaxRequests ELSE MaxRequests - 1])
    /\ SessionIdle /\ TcpIdle
    /\ PeerNew(MaxRequests)

NextFatal ==
    \/ \E p \in Nodes : RequestAny(p)
    \/ \E p \in Nodes : \E n \in 0..MaxInjectClock : InjectUpdateOk(p, <<n, p>>)
    \/ \E p \in Nodes : CausalSend(p)
    \/ \E p \in Nodes : CausalUpdateOk(p)
    \/ \E chunk \in Chunks : OnPut(chunk, Buf(fragment_len * chunk_k))
    \/ \E i \in DOMAIN works : WorkDone(i)
    \/ OnNewEncoder

SpecFatal == InitFatal /\ [][NextFatal]_vars

\* one verifiable processor of two, fed with clocked messages and with
\* Ordered certificates of any issuer and clock, one at a time
InjectOrdered ==
    {Ordered(<<x[1], x[2]>>, <<>>, x[3]) : x \in (0..MaxInjectClock) \X (0..1) \X (0..1)}

InitVerifiable == InitNodes(0..1, [p \in 0..1 |-> IF p = 0 THEN MaxVerInputs ELSE 0]) /\ SessionIdle /\ TcpIdle /\ PeerIdle

NextVerifiable ==
    \/ \E m \in InjectClocked : ProcIdle /\ Inject(0, m)
    \/ VerRecv(0)
    \/ \E ordered \in InjectOrdered : ProcIdle /\ VerRecvOrdered(0, ordered)
    \/ ProcIdle /\ LocalRequest(0)
    \/ ProcIdle /\ LocalRelease(0)

SpecVerifiable == InitVerifiable /\ [][NextVerifiable]_vars

\* a session with timers, with the mutex left as constructed
InitSession == InitNodes(0..1, [p \in 0..1 |-> 0]) /\ SessionNew(MaxUnsets) /\ TcpIdle /\ PeerIdle

NextSession ==
    \/ SessionSet
    \/ \E id \in 1..MaxTimers : TimerFire(id)
    \/ \E id \in 1..MaxTimers : TimerAborted(id)
    \/ \E id \in 1..(MaxTimers + 1) : SessionUnset(id)
    \/ SessionSend
    \/ SessionRun

SpecSession == InitSession /\ [][NextSession]_vars

\* ------------------------------------------------------------------ specifications of the net
\* the clock advances by just less than the idle bound or by the idle bound
TickSteps == {IdleSecs - 1, IdleSecs}

NextTcp ==
    \/ \E h \in Hosts : \E remote \in dests[h] : \E len \in sizes[h] : \E fail \in BOOLEAN :
            OnOutgoing(h, remote, len, fail)
    \/ \E c \in DOMAIN streams : Connect(c)
    \/ \E c \in DOMAIN streams : ConnectFail(c)
    \/ \E c \in DOMAIN streams : WritePreamble(c)
    \/ \E h \in Hosts : ListenerAccept(h)
    \/ \E c \in DOMAIN streams : Accept(c)
    \/ \E c \in DOMAIN streams : AcceptRefused(c)
    \/ \E h \in Hosts : AcceptError(h)
    \/ \E h \in Hosts : OnIncoming(h)
    \/ \E c \in DOMAIN streams : \E e \in Ends : WriteLen(c, e)
    \/ \E c \in DOMAIN streams : \E e \in Ends : WriteBuf(c, e)
    \/ \E c \in DOMAIN streams : \E e \in Ends : WriteError(c, e)
    \/ \E c \in DOMAIN streams : \E e \in Ends : WriteExit(c, e)
    \/ \E c \in DOMAIN streams : \E e \in Ends : ReadLen(c, e)
    \/ \E c \in DOMAIN streams : \E e \in Ends : \E refused \in BOOLEAN :
            ReadBuf(c, e, refused)
    \/ \E c \in DOMAIN streams : \E e \in Ends : ReadEof(c, e)
    \/ \E d \in TickSteps : Tick(d)

\* two hosts with listeners, each announcing its address
InitTcp ==
    /\ InitNodes(0..1, [p \in 0..1 |-> 0]) /\ SessionIdle /\ PeerIdle
    /\ TcpNew(1..2, 1..2, [h \in 1..2 |-> h],
              [h \in 1..2 |-> IF h = 1 THEN MaxOutgoing ELSE MaxOutgoing - 1],
              [h \in 1..2 |-> {1}], [h \in 1..2 |-> 1..2 \ {h}],
              MaxFailures, MaxTicks)

SpecTcp == InitTcp /\ [][NextTcp]_vars

\* four hosts, so that more addresses than a table holds are in use: the
\* first and the third send to the second, the second to the fourth, which
\* runs no accept loop
InitSaturated ==
    /\ InitNodes(0..1, [p \in 0..1 |-> 0]) /\ SessionIdle /\ PeerIdle
    /\ TcpNew(1..4, 1..3, [h \in 1..4 |-> h],
              [h \in 1..4 |-> IF h = 4 THEN 0 ELSE MaxOutgoing - 1],
              [h \in 1..4 |-> {1}], [h \in 1..4 |-> IF h = 2 THEN {4} ELSE {2}],
              MaxFailures, MaxTicks)

SpecSaturated == InitSaturated /\ [][NextTcp]_vars

\* two hosts, the first constructed without an address and so announcing
\* 0.0.0.0:0, and sending buffers of the greatest frame length and of one byte
\* more to the second, which sends none
FrameLens == {TCP_MAX_BUF_LEN, TCP_MAX_BUF_LEN + 1}

InitFrames ==
    /\ InitNodes(0..1, [p \in 0..1 |-> 0]) /\ SessionIdle /\ PeerIdle
    /\ TcpNew(1..2, 1..2, [h \in 1..2 |-> IF h = 1 THEN Wildcard ELSE h],
              [h \in 1..2 |-> IF h = 1 THEN MaxOutgoing + 1 ELSE 0],
              [h \in 1..2 |-> IF h = 1 THEN FrameLens ELSE {1}],
              [h \in 1..2 |-> 1..2 \ {h}], MaxFailures, MaxTicks)

SpecFrames == InitFrames /\ [][NextTcp]_vars

\* the two hosts, both sending
InitWildcard ==
    /\ InitNodes(0..1, [p \in 0..1 |-> 0]) /\ SessionIdle /\ PeerIdle
    /\ TcpNew(1..2, 1..2, [h \in 1..2 |-> IF h = 1 THEN Wildcard ELSE h],
              [h \in 1..2 |-> IF h = 1 THEN MaxOutgoing ELSE MaxOutgoing - 1],
              [h \in 1..2 |-> IF h = 1 THEN FrameLens ELSE {1}],
              [h \in 1..2 |-> 1..2 \ {h}], MaxFailures, MaxTicks)

SpecWildcard == InitWildcard /\ [][NextTcp]_vars

\* ------------------------------------------------------------------ specification of the entropy Peer
InitPeer ==
    /\ InitNodes(0..1, [p \in 0..1 |-> 0]) /\ SessionIdle /\ TcpIdle
    /\ PeerNew(MaxPeerEvents)

NextPeer ==
    \/ \E chunk \in Chunks : \E buf \in PutBufs : OnPut(chunk, buf)
    \/ \E chunk \in Chunks : OnGet(chunk)
    \/ \E chunk \in Chunks : \E peer_id \in {SelfId, OtherPeer} : OnRecvInvite(chunk, peer_id)
    \/ \E chunk \in Chunks : \E index \in Indices :
           \E peer_id \in {OtherPeer, ThirdPeer} : OnRecvInviteOk(chunk, index, peer_id)
    \/ \E chunk \in Chunks : \E index \in Indices : OnRecvBlob(chunk, index)
    \/ \E chunk \in Chunks : OnRecvPull(chunk, OtherPeer)
    \/ \E i \in DOMAIN works : WorkDone(i)
    \/ OnNewEncoder
    \/ OnEncode
    \/ OnDecode
    \/ OnRecover

SpecPeer == InitPeer /\ [][NextPeer]_vars

\* ------------------------------------------------------------------ Lamport mutex properties
\* C1: mutual exclusion: no two processors hold the lock at the same time,
\* whatever local Request/Release events the handlers accepted and however the
\* deliveries interleave
MutualExclusion == Cardinality({p \in Nodes : app[p] = "holding"}) <= 1

\* processor q has handled the pending Request of p and keeps it in its queue
SeenRequest(q, p) ==
    /\ curReq[p] # NoClock
    /\ \E i \in 1..Len(requests[q]) : requests[q][i] = <<curReq[p], p>>

\* C2: latests never decreases: handling an inbound clocked message leaves every
\* latests[j] greater than or equal to what it was, and latests[k] as it was
\* for every k other than the sender of the message
LatestsMonotone ==
    [][\A p \in Nodes :
        (procQ[p] # <<>> /\ procQ'[p] = Tail(procQ[p])) =>
            \A j \in Nodes :
                /\ ClockGe(latests'[p][j], latests[p][j])
                /\ j # Head(procQ[p]).inner.id => latests'[p][j] = latests[p][j]]_vars

\* a message of the peer was accepted and a later one left to handle
LatestsAdvanced ==
    /\ ClockGt(latests[0][1], clock_zero(1))
    /\ procQ[0] # <<>>
    /\ ~Accepts(latests[0][Head(procQ[0]).inner.id], Head(procQ[0]).clock)

\* C3: grant order follows the clock total order: of two pending Requests that
\* each processor has seen from the other, the one with the greater clock is
\* never granted while the one with the smaller clock still waits
GrantOrder ==
    \A p \in Nodes, q \in Nodes :
        ~ /\ p # q
          /\ app[q] = "holding"
          /\ app[p] = "waiting"
          /\ SeenRequest(q, p)
          /\ SeenRequest(p, q)
          /\ ClockGt(curReq[q], curReq[p])

\* the processor session of p takes its next inbound message
Handling(p) == procQ[p] # <<>> /\ procQ'[p] = Tail(procQ[p])

\* requests ascends strictly in the total order of the clocks
Sorted(reqs) ==
    \A i, j \in 1..Len(reqs) : i < j => arbitrary_cmp(reqs[i][1], reqs[j][1]) = "Less"
Entries(reqs) == {reqs[i] : i \in 1..Len(reqs)}

\* the RequestOk(self.id) that p hands to the causal layer for the origin id
ReplyTo(p, id) == SendEvent({id}, RequestOk(p), ProcTag(p, {id}))
Replies(p) ==
    {i \in 1..Len(causalQ[p]) :
        causalQ[p][i].kind = "Send" /\ causalQ[p][i].inner.type = "RequestOk"}

\* C27: after every inbound message requests is sorted ascending by the
\* total order of the clocks and holds no duplicate; an accepted
\* Request(clock, id) is inserted at its sorted position unless (clock, id)
\* is already there, and then requests is unchanged; in both cases one
\* RequestOk(self.id) goes through the causal layer to the origin id
RequestInserted ==
    [][\A p \in Nodes :
        Handling(p) =>
            LET ev == Head(procQ[p])
                id == ev.inner.id
            IN  /\ Sorted(requests'[p])
                /\ (ev.inner.type = "Request" /\ ClockGe(ev.clock, latests[p][id])) =>
                       /\ Entries(requests'[p]) = Entries(requests[p]) \cup {<<ev.clock, id>>}
                       /\ <<ev.clock, id>> \in Entries(requests[p]) => requests'[p] = requests[p]
                       /\ causalQ'[p] = Append(causalQ[p], ReplyTo(p, id))]_vars

\* three Requests were injected and accepted, each answered with RequestOk,
\* and one of them was already in requests: two entries are held
DuplicateRequestAnswered ==
    /\ procQ[0] = <<>>
    /\ budget[0] = 1
    /\ ~requesting[0]
    /\ Cardinality(Replies(0)) = MaxInject
    /\ Len(requests[0]) = 2

\* C28: an accepted Release(id) leaves requests unchanged if no entry has the
\* id; otherwise the clock of the Release is compared with the clock of the
\* oldest entry of the id before the entry is removed: exactly that entry is
\* removed when the Release clock is greater, and when it is not the handler
\* returns an error and requests is unchanged
ReleaseChecked ==
    [][\A p \in Nodes :
        Handling(p) =>
            LET ev == Head(procQ[p])
                id == ev.inner.id
                pos == Position(requests[p], id)
            IN  (ev.inner.type = "Release" /\ ClockGe(ev.clock, latests[p][id])) =>
                    IF pos = {} THEN requests'[p] = requests[p]
                    ELSE LET index == CHOOSE i \in pos : TRUE
                         IN  IF arbitrary_cmp(ev.clock, requests[p][index + 1][1]) = "Greater"
                             THEN requests'[p] = VecRemove(requests[p], index) /\ ~crashed'[p]
                             ELSE requests'[p] = requests[p] /\ crashed'[p]]_vars

\* C29: the RequestOk upcall is sent exactly when a handler of an inbound
\* message returns Ok with requesting true and the head (clock*, id*) of
\* requests has id* = self.id and latests[j] >= clock* for every j; sending
\* it sets requesting to false, and no other step sends it or clears
\* requesting, which only an accepted local Request sets: an accepted local
\* Request gets at most one upcall
UpcallWhenGranted ==
    [][\A p \in Nodes :
        LET upcall == app[p] # "holding" /\ app'[p] = "holding"
            granted == /\ requests'[p] # <<>>
                       /\ requests'[p][1][2] = p
                       /\ \A j \in Nodes : ClockGe(latests'[p][j], requests'[p][1][1])
        IN  IF Handling(p)
            THEN /\ upcall <=> (~crashed'[p] /\ requesting[p] /\ granted)
                 /\ requesting'[p] = (requesting[p] /\ ~upcall)
            ELSE /\ ~upcall
                 /\ requesting'[p] # requesting[p] =>
                        (requesting'[p] /\ budget'[p] < budget[p])]_vars

\* the upcall was sent while the Request of the peer waits behind the own one
GrantedAheadOfPeer ==
    /\ app[0] = "holding"
    /\ ~requesting[0]
    /\ Len(requests[0]) = 2
    /\ requests[0][2][2] = 1

\* C30: an inbound message of peer id whose clock is strictly less than
\* latests[id] is dropped: latests and requests stay as they are and no
\* RequestOk reply is sent; a message whose clock equals latests[id] is
\* accepted, a Request of that clock is entered and answered
StaleDropped ==
    [][\A p \in Nodes :
        Handling(p) =>
            LET ev == Head(procQ[p])
                id == ev.inner.id
            IN  /\ partial_cmp(ev.clock, latests[p][id]) = "Less" =>
                       /\ latests'[p] = latests[p]
                       /\ requests'[p] = requests[p]
                       /\ causalQ'[p] = causalQ[p]
                /\ (ev.clock = latests[p][id] /\ ev.inner.type = "Request") =>
                       /\ <<ev.clock, id>> \in Entries(requests'[p])
                       /\ causalQ'[p] = Append(causalQ[p], ReplyTo(p, id))]_vars

\* the session holds a Request whose clock equals latests of its sender, and
\* behind it a message of the peer with a clock below latests
EqualThenStale ==
    /\ Len(procQ[0]) >= 2
    /\ procQ[0][1].inner.type = "Request"
    /\ procQ[0][1].inner.id = 1
    /\ procQ[0][1].clock = latests[0][1]
    /\ ClockGt(latests[0][1], clock_zero(1))
    /\ procQ[0][2].inner.id = 1
    /\ partial_cmp(procQ[0][2].clock, latests[0][1]) = "Less"

\* the causal session of q waits at the bound of the run on the counters
AtClockBound(q) ==
    /\ ~crashed[q]
    /\ procQ[q] = <<>>
    /\ causalQ[q] # <<>>
    /\ LET ev == Head(causalQ[q])
       IN  \/ ev.kind = "Recv" /\ ~pending_recv[q].is_some /\ ~ClockRoom(clock[q], ev.clock)
           \/ /\ ev.kind = "UpdateOk"
              /\ pending_recv[q].items # <<>>
              /\ ~ClockRoom(ev.clock, Head(pending_recv[q].items).clock)

\* C39: liveness of the Lamport mutex: with a reliable FIFO net that loops
\* broadcasts back, sessions that go on handling their events, and every
\* processor that receives the RequestOk upcall releasing in the end, every
\* accepted local Request is followed in the end by the RequestOk upcall at
\* its processor, in every run that stays below the bound on the counters
RequestGranted ==
    \A p \in LiveNodes :
        requesting[p] ~> (~requesting[p] \/ \E q \in LiveNodes : AtClockBound(q))

\* ------------------------------------------------------------------ verifiable mutex properties
\* a handler of the verifiable processor p has run
VerHandling(p) == vlast'.n # vlast.n /\ vlast'.node = p

\* the verifiable processor p sends the RequestOk upcall
VerUpcall(p) == app[p] # "holding" /\ app'[p] = "holding"

\* the issuers whose certificate held by p has the clock c
Certifiers(prf, c) == {k \in DOMAIN prf : prf[k].clock = c}

Range(seq) == {seq[i] : i \in 1..Len(seq)}

\* C31: in the verifiable variant the RequestOk upcall is sent only when
\* requesting is true, the head of requests is (clock*, self.id) and more
\* than num_faulty issuers have a certificate in proof whose clock equals
\* clock*; the certificates collected for an earlier own request never
\* satisfy the condition for a later one, so no two upcalls are sent for
\* the same clock*
CertifiedUpcall ==
    [][\A p \in Nodes :
        VerUpcall(p) =>
            /\ VerHandling(p)
            /\ requesting[p]
            /\ requests'[p] # <<>>
            /\ requests'[p][1][2] = p
            /\ Cardinality(Certifiers(proof'[p], requests'[p][1][1])) > num_faulty
            /\ requests'[p][1][1] \notin Range(vgrants[p])]_vars

\* the Ordered messages p hands to the signing net in this step
Issued(p) == SubSeq(ordOut'[p], Len(ordOut[p]) + 1, Len(ordOut'[p]))

\* C32: issuance of ordering certificates is monotone: a processor issues
\* Ordered for a pending request (clock*, id*), sent to id*, only if every
\* latests[j] dominates clock* and clock* is above last_ordered; last_ordered
\* never decreases, and a processor issues at most one certificate per
\* request clock
IssuanceMonotone ==
    [][\A p \in Nodes :
        /\ arbitrary_cmp(last_ordered'[p], last_ordered[p]) \in {"Greater", "Equal"}
        /\ \A i \in 1..Len(Issued(p)) :
               LET c == Issued(p)[i].ordered.clock
               IN  /\ <<c, Issued(p)[i].to>> \in Entries(requests'[p])
                   /\ Issued(p)[i].ordered.id = p
                   /\ \A j \in Nodes : ClockGe(latests'[p][j], c)
                   /\ arbitrary_cmp(c, last_ordered[p]) = "Greater"
                   /\ \A k \in 1..(i - 1) :
                          arbitrary_cmp(c, Issued(p)[k].ordered.clock) = "Greater"
        /\ \A i, k \in 1..Len(ordOut'[p]) :
               i # k => ordOut'[p][i].ordered.clock # ordOut'[p][k].ordered.clock]_vars

\* two certificates were issued, and the request of the first is still
\* pending: the handler calls since then have passed over it
IssuedThenSkipped ==
    /\ Len(ordOut[0]) = 2
    /\ vlast.n >= 3
    /\ \E i \in 1..Len(requests[0]) : requests[0][i][1] = ordOut[0][1].ordered.clock
    /\ last_ordered[0] = ordOut[0][2].ordered.clock

\* C33: proof holds at most one certificate per issuer and its clock never
\* decreases: a received Ordered of issuer id takes the place of proof[id]
\* only if its clock is not less than or equal to the clock of the one held;
\* otherwise it is discarded, proof is unchanged and the handler does
\* nothing more
ProofKeepsGreatest ==
    [][\A p \in Nodes :
        /\ \A k \in DOMAIN proof[p] :
               /\ k \in DOMAIN proof'[p]
               /\ partial_cmp(proof'[p][k].clock, proof[p][k].clock) \in {"Greater", "Equal"}
        /\ \A k \in DOMAIN proof'[p] : proof'[p][k].id = k
        /\ IF VerHandling(p) /\ vlast'.op = "Ordered"
           THEN LET ordered == vlast'.ordered
                    id == ordered.id
                IN  IF /\ id \in DOMAIN proof[p]
                       /\ partial_cmp(ordered.clock, proof[p][id].clock) \in {"Less", "Equal"}
                    THEN /\ proof'[p] = proof[p]
                         /\ requesting'[p] = requesting[p]
                         /\ ordOut'[p] = ordOut[p]
                    ELSE /\ DOMAIN proof'[p] = DOMAIN proof[p] \cup {id}
                         /\ proof'[p][id] = ordered
                         /\ \A k \in DOMAIN proof[p] \ {id} : proof'[p][k] = proof[p][k]
           ELSE proof'[p] = proof[p]]_vars

\* the processor is requesting with its own request at the head and holds
\* the certificate of one issuer for it; the Ordered received last, of that
\* issuer and of the same clock, was discarded; a second issuer has a
\* certificate in proof
EqualOrderedDiscarded ==
    /\ vlast.op = "Ordered"
    /\ vlast.discarded
    /\ vlast.ordered.id \in DOMAIN proof[0]
    /\ proof[0][vlast.ordered.id].clock = vlast.ordered.clock
    /\ ClockGt(vlast.ordered.clock, clock_zero(1))
    /\ requesting[0]
    /\ requests[0] # <<>>
    /\ requests[0][1] = <<vlast.ordered.clock, 0>>
    /\ Cardinality(DOMAIN proof[0]) = 2

\* ------------------------------------------------------------------ Causal layer properties
\* the messages the layer handed to the net that are still on a connection
InFlight ==
    UNION {{[from |-> pr[1], m |-> chan[pr][i]] : i \in 1..Len(chan[pr])} : pr \in DOMAIN chan}

\* the messages the layer of p forwarded to recv_sender, in order
Forwarded(p) == got[p] \o [i \in 1..Len(procQ[p]) |-> procQ[p][i].tag]

\* C4: every message handed to the net carries a clock strictly greater than
\* clock_zero and greater than or equal to the clock most recently installed by
\* UpdateOk at its sender
EgressClock ==
    \A x \in InFlight :
        /\ ClockGt(x.m.clock, clock_zero(x.from))
        /\ ClockGe(x.m.clock, x.m.tag.inst)

\* a send deferred during the update that Init starts is on its way
DeferredEgress ==
    \E x \in InFlight : x.m.tag.deferred /\ x.m.tag.inst = <<1, x.from>>

\* C5: the clock of every message handed to the net is greater than or
\* equal to the clock of every inbound message forwarded to the application
\* before the hand-off, the message popped in the same UpdateOk step included
EgressAfterDelivered ==
    \A x \in InFlight : ClockGe(x.m.clock, x.m.tag.deliv)

\* C6: a message that arrived while the layer was Idle is not
\* forwarded to recv_sender before the UpdateOk for its clock is installed
HeldUntilUpdateOk ==
    \A p \in Nodes : \A i \in 1..Len(procQ[p]) :
        ~procQ[p][i].tag.held => ClockGe(clock[p], procQ[p][i].tag.upd)

\* C7: a message is never delivered to the application before a
\* message addressed to the same recipient that was delivered to its sender
\* before it was sent
CausalDelivery ==
    \A r \in Nodes : \A j \in 1..Len(got[r]) : \A d \in got[r][j].deps :
        r \in d.to => \E i \in 1..(j - 1) : got[r][i].uid = d.uid

\* the causal session of p takes its next event, of the given kind, and the
\* handler runs
CausalTaking(p, kind) ==
    /\ causalQ[p] # <<>>
    /\ Head(causalQ[p]).kind = kind
    /\ Len(causalQ'[p]) <= Len(causalQ[p])
    /\ causalQ'[p] # causalQ[p]

\* the handler of the causal session of p sends an Update to the clock
\* service, whose answer joins the session
UpdateSent(p) ==
    /\ \E kind \in {"Init", "Recv", "UpdateOk"} : CausalTaking(p, kind)
    /\ Len(causalQ'[p]) = Len(causalQ[p])
    /\ causalQ'[p][Len(causalQ'[p])].kind = "UpdateOk"

\* the remote clock of the Update sent: the own clock at Init, the clock of
\* the message forwarded otherwise
RemoteOf(p) ==
    IF Head(causalQ[p]).kind = "Init" THEN clock[p]
    ELSE IF Head(causalQ[p]).kind = "Recv" THEN Head(causalQ[p]).clock
    ELSE Head(pending_recv[p].items).clock

\* an answer of the Lamport service that was computed from counters below the
\* greatest value: it is max + 1, so its counter is not 0; only the wrapped
\* sum of the greatest value has the counter 0
Unwrapped(c) == c[1] > 0

\* C34: the Lamport clock service answers Update{prev, remote} with
\* UpdateOk((max(prev.counter, remote.counter) + 1, local id)); for counters
\* below the greatest value of the counter the answer is strictly greater
\* than prev, and the strictly-greater check of the Causal layer on such an
\* UpdateOk never fails
LamportAnswers ==
    [][\A p \in Nodes :
        /\ UpdateSent(p) =>
               LET prev == clock'[p]
                   remote == RemoteOf(p)
                   answer == causalQ'[p][Len(causalQ'[p])].clock
               IN  (prev[1] < u32_MAX /\ remote[1] < u32_MAX) =>
                       /\ answer = <<Max(prev[1], remote[1]) + 1, p>>
                       /\ partial_cmp(answer, prev) = "Greater"
        /\ (CausalTaking(p, "UpdateOk") /\ Unwrapped(Head(causalQ[p]).clock)) =>
               /\ partial_cmp(Head(causalQ[p]).clock, clock[p]) = "Greater"
               /\ clock'[p] = Head(causalQ[p]).clock
               /\ crashed'[p] =>
                      \* the sum for the next pending message overflowed
                      /\ pending_recv[p].items # <<>>
                      /\ Max(Head(causalQ[p]).clock[1],
                             Head(pending_recv[p].items).clock[1]) = u32_MAX]_vars

\* the layer of node 1 has installed the greatest counter, answered for a
\* message of node 0 whose counter was one below it
GreatestCounterInstalled ==
    /\ clock[1] = <<u32_MAX, 1>>
    /\ clock[0] = <<u32_MAX - 1, 0>>
    /\ got[1] # <<>>
    /\ \A p \in Nodes : ~crashed[p]

\* the sends of a sequence by their history id, and with their clocks
Uids(sends) == [i \in 1..Len(sends) |-> sends[i].tag.uid]
Stamps(sends) == [i \in 1..Len(sends) |-> <<sends[i].tag.uid, sends[i].clock>>]

\* the deferred sends of p addressed to d, stamped with the clock c
DeferredFor(p, d, c) ==
    LET To(send) == d \in send.dest
        sends == SelectSeq(pending_send[p], To)
    IN  [i \in 1..Len(sends) |-> <<sends[i].tag.uid, c>>]

\* C35: a send issued while a clock update is in flight is not handed to
\* the net: it joins pending_send, where it stays until the next UpdateOk;
\* every UpdateOk, whether or not pending_recv was empty, hands all deferred
\* sends to the net exactly once, in the order they were issued, each
\* stamped with the clock that the UpdateOk installs, and leaves
\* pending_send empty
DeferredDrained ==
    [][\A p \in Nodes :
        IF CausalTaking(p, "Send") /\ pending_recv[p].is_some
        THEN /\ \A d \in Nodes : chan'[<<p, d>>] = chan[<<p, d>>]
             /\ Uids(pending_send'[p]) = Append(Uids(pending_send[p]), Head(causalQ[p]).tag.uid)
        ELSE IF CausalTaking(p, "UpdateOk")
        THEN /\ pending_send'[p] = <<>>
             /\ clock'[p] = Head(causalQ[p]).clock
             /\ \A d \in Nodes :
                    Stamps(chan'[<<p, d>>]) =
                        Stamps(chan[<<p, d>>]) \o DeferredFor(p, d, Head(causalQ[p]).clock)
        ELSE pending_send'[p] = pending_send[p]]_vars

\* two sends of node 0 were deferred during one update and are on their way
\* to node 1 in the order of their issue, with one clock, drained by an
\* UpdateOk that found pending_recv empty
DrainedInOrder ==
    /\ Len(chan[<<0, 1>>]) = 2
    /\ chan[<<0, 1>>][1].tag.deferred /\ chan[<<0, 1>>][2].tag.deferred
    /\ chan[<<0, 1>>][1].tag.uid = <<0, 1>> /\ chan[<<0, 1>>][2].tag.uid = <<0, 2>>
    /\ chan[<<0, 1>>][1].clock = chan[<<0, 1>>][2].clock
    /\ chan[<<0, 1>>][1].clock = clock[0]
    /\ ~pending_recv[0].is_some

\* the answers of the clock service that wait in the causal session of p
Outstanding(p) == {i \in 1..Len(causalQ[p]) : causalQ[p][i].kind = "UpdateOk"}

\* C37: at most one clock update of a Causal layer is outstanding at any
\* time, and pending_recv is Some exactly while an Update has been sent to
\* the clock service and its UpdateOk has not been handled; so, the clock
\* service answering each Update once, no UpdateOk arrives while
\* pending_recv is None, and no handler returns the error of the missing
\* queue
OneUpdateOutstanding ==
    \A p \in Nodes :
        /\ Cardinality(Outstanding(p)) <= 1
        /\ pending_recv[p].is_some <=> Outstanding(p) # {}
        /\ ~crashed[p]

\* a layer that has installed the clocks of two updates has a third one
\* outstanding, with a message held in pending_recv
HeldDuringThirdUpdate ==
    \E p \in Nodes :
        /\ clock[p][1] >= 2
        /\ Cardinality(Outstanding(p)) = 1
        /\ pending_recv[p].is_some
        /\ pending_recv[p].items # <<>>

\* the history ids of the messages the generic application may send
SendIds == LiveNodes \X (1..MaxSends)

\* the layer of p receives the message: its Recv event is in the session
\* of the layer
ReceivedAt(p, uid) ==
    \E i \in 1..Len(causalQ[p]) : causalQ[p][i].kind = "Recv" /\ causalQ[p][i].tag.uid = uid

\* the places of the message among those the layer of p has forwarded
ForwardedAt(p, uid) == {i \in 1..Len(Forwarded(p)) : Forwarded(p)[i].uid = uid}

\* C38: the clock service answering every Update, every clocked message a
\* Causal layer receives is in the end forwarded to the application, once,
\* and the messages are forwarded in the order in which the layer received
\* them: none stays in pending_recv for ever, none is dropped, none is
\* forwarded twice
EveryReceivedForwarded ==
    /\ [](\A p \in LiveNodes : \A uid \in SendIds :
            /\ Cardinality(ForwardedAt(p, uid)) <= 1
            /\ \A i \in ForwardedAt(p, uid) : Forwarded(p)[i].arr = i)
    /\ \A p \in LiveNodes : \A uid \in SendIds :
            ReceivedAt(p, uid) ~> (ForwardedAt(p, uid) # {})

\* the application of a node has taken two messages, the second of which
\* the layer had held in pending_recv during the clock update for the
\* first, and the layer is Idle again
HeldThenForwarded ==
    \E p \in LiveNodes :
        /\ Len(got[p]) = 2
        /\ ~got[p][1].held /\ got[p][2].held
        /\ ~pending_recv[p].is_some

\* C8: timer cancellation is race-free: no timer whose unset returned Ok has
\* its event handed to the handler, even if the event was queued already
CancelRaceFree == cancelled \cap handled = {}

\* a timer fired, was unset with Ok while its event was queued, and the loop
\* dropped the event
CancelledAfterFire == cancelled \cap skipped # {}

\* C9: after the event of a timer was handed to the handler, unset of its id
\* returns Ok and leaves the timer table unchanged
UnsetAfterDelivery ==
    (slast.op = "unset" /\ slast.delivered) => (slast.ok /\ slast.same)

\* C10: unset of an id that is not in the timer table returns an error and
\* leaves the timer table and the event queue unchanged
UnsetUnknown ==
    (slast.op = "unset" /\ ~slast.known) => (~slast.ok /\ slast.same)

\* unset was called with an id the table does not hold, never set or already unset
UnsetUnknownCalled ==
    /\ slast.op = "unset"
    /\ ~slast.known
    /\ slast.id > timer_id \/ slast.id \in cancelled

\* the events taken from the session channel so far, by their place in the
\* order of the sends
Received == {hlog[i].seq : i \in 1..Len(hlog)} \cup {s.event.seq : s \in sklog}

\* C11: the handler is invoked on the events of a session in the order in
\* which they were sent to the session channel: no event is handled twice,
\* none is handled before one sent earlier, and the only events taken from
\* the channel without being handled are timer events whose id the timer
\* table did not hold
HandledInEnqueueOrder ==
    /\ \A i \in 1..Len(hlog) : \A j \in 1..Len(hlog) : i < j => hlog[i].seq < hlog[j].seq
    /\ \A s \in sklog : s.event.kind = "Timer" /\ ~s.present
    /\ Received = 1..(senq - Len(squeue))
    /\ \A i \in 1..Len(squeue) : squeue[i].seq = senq - Len(squeue) + i

\* a plain event and a timer event were handled, in the order of their
\* sends, with a skipped timer event sent between them
HandledAroundSkipped ==
    \E i \in 1..Len(hlog) : \E j \in 1..Len(hlog) : \E s \in sklog :
        /\ hlog[i].seq < s.event.seq /\ s.event.seq < hlog[j].seq
        /\ hlog[i].kind # hlog[j].kind

\* ------------------------------------------------------------------ net properties
\* a stream is live while a write task holds one of its write halves open
Live(c) == \E e \in Ends : streams[c].writer[e] = "running"

\* the live streams between two hosts
LiveBetween(a, b) ==
    {c \in DOMAIN streams : Live(c) /\ {streams[c].client, streams[c].server} = {a, b}}

\* C12: for every pair of hosts, once the sends have stopped for 15 s and no
\* handler or task has a step left, at most one live TCP connection between
\* the two remains
OneConnectionWhenQuiet ==
    (TcpQuiet /\ now - busy_at >= IdleSecs) =>
        \A a \in Hosts : \A b \in Hosts : Cardinality(LiveBetween(a, b)) <= 1

\* the entry of the table before the last handler call that was installed by
\* the Incoming handler for the address of the call, if there is one
Accepted ==
    {tlast.before[i] : i \in {j \in 1..Len(tlast.before) :
        tlast.before[j].remote = tlast.remote /\ tlast.before[j].sender.end = "s"}}

\* C13: connection reuse: once a host has handled the Incoming of a connection
\* that announced the address of its peer, an Outgoing to that address
\* enqueues the buffer on the egress channel of that connection and opens no
\* new connection, as long as the entry is in the table and its channel is alive
ReuseAccepted ==
    (tlast.op = "Outgoing" /\ tlast.alive) =>
        \A conn \in Accepted : tlast.queued = {conn.sender} /\ tlast.opened = 0

\* a buffer was sent back over an accepted connection, and delivered by the
\* read task of the host that had opened it
ReusedAccepted ==
    /\ tlast.op = "Outgoing" /\ tlast.alive
    /\ \E conn \in Accepted :
           /\ tlast.queued = {conn.sender}
           /\ \E i \in 1..Len(delivered[tlast.remote]) :
                  /\ delivered[tlast.remote][i].stream = conn.sender.stream
                  /\ delivered[tlast.remote][i].end = OtherEnd(conn.sender.end)
                  /\ delivered[tlast.remote][i].id = nbuf

\* the addresses with an entry in a table
Remotes(t) == {t[i].remote : i \in 1..Len(t)}

\* the last handler call was an Outgoing to an address without an entry, at a
\* host whose table was full
SaturatedMiss ==
    /\ tlast.op = "Outgoing"
    /\ Len(tlast.before) >= TCP_MAX_CONNECTION_NUM
    /\ tlast.remote \notin Remotes(tlast.before)

\* C14 as stated: an Outgoing to an address without an entry while the table
\* is full is dropped, opening no connection and leaving the table unchanged,
\* if the least recently used entry was used less than 15 s ago; else that
\* entry is evicted and an entry of the destination is inserted
SaturatedSend ==
    SaturatedMiss =>
        IF tlast.at - tlast.before[1].used_at < IdleSecs
        THEN tlast.queued = {} /\ tlast.opened = 0 /\ tlast.after = tlast.before
        ELSE /\ tlast.before[1].remote \notin Remotes(tlast.after)
             /\ tlast.remote \in Remotes(tlast.after)

\* C14: an Outgoing to an address without an entry while the table is full
\* is dropped, opening no connection and leaving the table unchanged, if the
\* least recently used entry was used less than 15 s ago; else that entry is
\* evicted and a connection is opened, and the entry of the destination is
\* inserted as the most recently used one unless the new channel refused the
\* buffer, its connecting task having ended already
SaturatedSendUnlessRefused ==
    SaturatedMiss =>
        IF tlast.at - tlast.before[1].used_at < IdleSecs
        THEN tlast.queued = {} /\ tlast.opened = 0 /\ tlast.after = tlast.before
        ELSE /\ tlast.opened = 1
             /\ tlast.before[1].remote \notin Remotes(tlast.after)
             /\ IF tlast.queued = {}
                THEN tlast.after = Tail(tlast.before)
                ELSE /\ tlast.after = Append(Tail(tlast.before),
                            Connection(tlast.remote, tlast.stream, "c", tlast.at))
                     /\ tlast.queued = {[stream |-> tlast.stream, end |-> "c"]}

\* the least recently used entry of a full table was used exactly 15 s before
\* an Outgoing to a new address, and was evicted for the entry of that address
EvictedAtBound ==
    /\ SaturatedMiss
    /\ tlast.at - tlast.before[1].used_at = IdleSecs
    /\ tlast.remote \in Remotes(tlast.after)
    /\ tlast.before[1].remote \notin Remotes(tlast.after)

\* C15: the table never evicts an active connection: no handler call, Outgoing
\* or Incoming, removes an entry that was used less than 15 s ago to make
\* room for a different address
NoActiveEvicted ==
    \A i \in 1..Len(tlast.before) :
        (tlast.before[i].remote # tlast.remote
            /\ tlast.before[i].remote \notin Remotes(tlast.after)) =>
                tlast.at - tlast.before[i].used_at >= IdleSecs

\* the place of the first frame of a sequence whose length is above 2^20, or
\* the length of the sequence plus one
RECURSIVE FirstAbove(_, _)
FirstAbove(frames, i) ==
    IF i > Len(frames) THEN i
    ELSE IF frames[i].len > TCP_MAX_BUF_LEN THEN i
    ELSE FirstAbove(frames, i + 1)

\* the on_buf calls made by the read task at the end e of stream c among the
\* calls of a host, in their order; both ends of a stream are at one host
\* when the host has sent to its own address
RECURSIVE OnBufOf(_, _, _)
OnBufOf(calls, c, e) ==
    IF calls = <<>> THEN <<>>
    ELSE IF Head(calls).stream = c /\ Head(calls).end = e
         THEN <<[id |-> Head(calls).id, len |-> Head(calls).len]>> \o OnBufOf(Tail(calls), c, e)
         ELSE OnBufOf(Tail(calls), c, e)

\* the on_buf calls of the read task at the end e of stream c
OnBufAt(c, e) == OnBufOf(delivered[HostAt(streams[c], e)], c, e)

\* C16: the read task passes to on_buf every frame it reads whose length is
\* at most 2^20, a frame of exactly 2^20 included, and goes on when on_buf
\* has taken it; at the first frame whose length is 2^20 + 1 or more it ends,
\* with no on_buf call for that frame or for any later one. A frame on which
\* on_buf returns an error is within the bound, and is the last one read
FrameLengthBound ==
    \A c \in DOMAIN streams : \A e \in Ends :
        LET frames == streams[c].sent[OtherEnd(e)]
            read == Len(frames) - Len(streams[c].wire[OtherEnd(e)])
            k == FirstAbove(frames, 1)
        IN  IF streams[c].refused[e]
            THEN /\ read < k
                 /\ OnBufAt(c, e) = SubSeq(frames, 1, read - 1)
                 /\ streams[c].reader[e] = "done"
            ELSE /\ OnBufAt(c, e) = SubSeq(frames, 1, IF read < k THEN read ELSE k - 1)
                 /\ read >= k => streams[c].reader[e] = "done" /\ read = k

\* a read task took a frame of exactly 2^20, passed it to on_buf, and then
\* ended at a frame of 2^20 + 1 with a later frame left unread
FrameAtBoundThenAbove ==
    \E c \in DOMAIN streams : \E e \in Ends :
        LET frames == streams[c].sent[OtherEnd(e)]
        IN  /\ Len(frames) >= 3
            /\ frames[1].len = TCP_MAX_BUF_LEN
            /\ frames[2].len = TCP_MAX_BUF_LEN + 1
            /\ OnBufAt(c, e) = <<frames[1]>>
            /\ streams[c].reader[e] = "done"
            /\ Len(streams[c].wire[OtherEnd(e)]) > 0

\* C17: handling Incoming with the address 0.0.0.0:0 leaves the connection
\* table as it was, and the read task of the stream is started and passes
\* the frames it reads to on_buf, which has taken each of them but the one
\* it returned an error on
WildcardIncoming ==
    /\ (tlast.op = "Incoming" /\ tlast.remote = Wildcard) => tlast.after = tlast.before
    /\ \A c \in DOMAIN streams :
           (streams[c].remote = Wildcard /\ streams[c].stage = "handled") =>
               /\ streams[c].reader["s"] # "none"
               /\ \A i \in 1..Len(streams[c].sent["c"]) :
                      (i <= Len(streams[c].sent["c"]) - Len(streams[c].wire["c"])
                          /\ (streams[c].refused["s"] =>
                                 i < Len(streams[c].sent["c"]) - Len(streams[c].wire["c"]))
                          /\ i < FirstAbove(streams[c].sent["c"], 1)) =>
                              \E j \in 1..Len(delivered[streams[c].server]) :
                                  /\ delivered[streams[c].server][j].id = streams[c].sent["c"][i].id
                                  /\ delivered[streams[c].server][j].stream = c
                                  /\ delivered[streams[c].server][j].end = "s"

\* a host with an entry in its table handled an Incoming with the address
\* 0.0.0.0:0, and the read task of that stream passed a payload to on_buf
WildcardDelivered ==
    /\ tlast.op = "Incoming" /\ tlast.remote = Wildcard
    /\ tlast.before # <<>>
    /\ \E j \in 1..Len(delivered[tlast.host]) :
           delivered[tlast.host][j].stream = tlast.stream /\ delivered[tlast.host][j].end = "s"

\* ------------------------------------------------------------------ entropy Peer properties
\* C18: Put with a buffer whose length is not fragment_len * chunk_k fails at
\* once: the handler returns an error, submits no work to the codec worker,
\* sends no message, and leaves uploads, downloads and persists as they were
PutWrongLength ==
    (plast.op = "Put" /\ plast.len # fragment_len * chunk_k) =>
        /\ ~plast.ok
        /\ plast.submitted = 0
        /\ plast.sent = 0
        /\ plast.same

\* a Put with a buffer one byte too long was refused by a Peer that holds an
\* upload and has work with its codec worker
PutRefused ==
    /\ plast.op = "Put"
    /\ plast.len = fragment_len * chunk_k + 1
    /\ ~plast.ok
    /\ DOMAIN uploads # {}
    /\ works # <<>>

\* the upcalls of a type the Peer has delivered for a chunk
Upcalled(type, chunk) ==
    {i \in 1..Len(upcalls) : upcalls[i].type = type /\ upcalls[i].chunk = chunk}

\* C19: every accepted Put is answered by a PutOk upcall once its dispersal
\* is initiated: when the codec worker has completed its work and the Peer has
\* handled every event, each chunk whose encoder is installed and whose Invite
\* is multicast has its PutOk
PutAnswered ==
    (works = <<>> /\ peerQ = <<>>) =>
        \A chunk \in DOMAIN uploads :
            Sent("Invite", chunk) # {} => Upcalled("PutOk", chunk) # {}

\* the decode work of a chunk that is in flight: submitted to the codec
\* worker, or completed with its Decode or Recover event not yet handled
DecodeInFlight(chunk) ==
    Cardinality({i \in 1..Len(works) : works[i].type = "Decode" /\ works[i].chunk = chunk})
    + Cardinality({i \in 1..Len(peerQ) :
          peerQ[i].type \in {"Decode", "Recover"} /\ peerQ[i].chunk = chunk})

\* the download state of the chunk holds the decoder and no decode work of
\* the chunk is in flight, or the decoder is absent and exactly one decode
\* work of the chunk is in flight
HeldOrInFlight(chunk) ==
    IF downloads[chunk].decoder.is_some
    THEN DecodeInFlight(chunk) = 0
    ELSE DecodeInFlight(chunk) = 1

\* C20: in every reachable state, for every download exactly one of
\* the two holds: the decoder is in the download state and no decode work of
\* the chunk is in flight, or it is absent and exactly one is in flight
DecoderHeldOrInFlight == \A chunk \in DOMAIN downloads : HeldOrInFlight(chunk)

\* the decode work of an index of a chunk that is with the codec worker
DecodeWorkOf(chunk, index) ==
    {i \in 1..Len(works) :
        works[i].type = "Decode" /\ works[i].chunk = chunk /\ works[i].index = index}

\* where a fragment buffered in pending is: still in pending, with the codec
\* worker, or passed to decode
BufferedAt(chunk, index) ==
    (IF index \in DOMAIN downloads[chunk].pending THEN 1 ELSE 0)
    + Cardinality(DecodeWorkOf(chunk, index))
    + dstat[chunk].fed[index]

\* C21: for the accepted Gets of a chunk, whatever fragments arrive and in
\* whatever order, recover has been called at most once per accepted Get and
\* at most one GetOk per accepted Get is delivered; the Recover handler that
\* delivers GetOk leaves the chunk without a download state; no index is
\* passed to decode twice for one download state, and while the download
\* state is in place every fragment that was buffered in pending is in
\* exactly one place: still buffered, with the codec worker, or decoded once
RecoveredOnce ==
    /\ \A chunk \in Chunks :
           /\ dstat[chunk].recovers <= dstat[chunk].gets
           /\ Cardinality(Upcalled("GetOk", chunk)) <= dstat[chunk].gets
           /\ \A index \in Indices : dstat[chunk].fed[index] <= 1
           /\ chunk \in DOMAIN downloads =>
                  \A index \in dstat[chunk].buffered : BufferedAt(chunk, index) = 1
    /\ (plast.op = "Recover" /\ plast.ok) => plast.chunk \notin DOMAIN downloads

\* a download has completed with GetOk: of the fragments that were buffered
\* one was decoded and another was discarded with the download state
RecoveredWithBuffered ==
    \E chunk \in Chunks :
        /\ Upcalled("GetOk", chunk) # {}
        /\ chunk \notin DOMAIN downloads
        /\ dstat[chunk].recovers = 1
        /\ \E i, j \in dstat[chunk].buffered :
               dstat[chunk].fed[i] = 1 /\ dstat[chunk].fed[j] = 0

\* C22: a fragment goes by blob transfer to the peer whose InviteOk started
\* its encode work and to no other peer, so that of two peers that send
\* InviteOk with the same index neither receives the fragment encoded for
\* the other, and neither receives the index twice
FragmentToInviter ==
    \A i \in 1..Len(blobOut) : blobOut[i].to = blobOut[i].for

\* the fragments the Peer has sent by blob transfer to a peer for a chunk
Transferred(chunk, peer_id) ==
    {i \in 1..Len(blobOut) : blobOut[i].chunk = chunk /\ blobOut[i].to = peer_id}

\* C23: a Pull{chunk, puller} that reaches a peer to which the fragment of the
\* chunk has been handed for persisting is answered with a SendFragment blob
\* to the puller: once the codec worker has completed its work and no event
\* is left in the session of the Peer, the blob has been sent
PullAnswered ==
    (works = <<>> /\ peerQ = <<>>) =>
        \A pull \in pulls :
            pull.handed => Transferred(pull.chunk, pull.peer_id) # {}

\* C24: an invited peer, one that has answered Invite with InviteOk and has no
\* download of the chunk, handles the SendFragment blob of the chunk without
\* an error, so that its session goes on and the fragment can be stored
InviteeStores ==
    (plast.op = "RecvBlob" /\ ~plast.downloading /\ Sent("InviteOk", plast.chunk) # {}) =>
        plast.ok

\* C26: no Recover completion and no SendFragment blob is delivered for a
\* chunk without a download state, also when the download of the chunk has
\* completed and a further fragment sent to the puller arrives
NoStaleCompletion ==
    (plast.op \in {"Recover", "RecvBlob"} /\ dstat[plast.chunk].gets > 0) =>
        plast.downloading

\* C36: within one download no fragment index is fed to the decoder more
\* than once: a SendFragment whose index is in decoded is ignored, with no
\* decode work submitted and pending as it was, and every index in pending
\* is also in decoded
FragmentFedOnce ==
    [][/\ \A chunk \in Chunks : \A index \in Indices :
              (/\ OnRecvBlob(chunk, index)
               /\ chunk \in DOMAIN downloads
               /\ index \in downloads[chunk].decoded) =>
                  /\ works' = works
                  /\ downloads' = downloads
                  /\ ~peer_failed'
       /\ \A chunk \in DOMAIN downloads' :
              DOMAIN downloads'[chunk].pending \subseteq downloads'[chunk].decoded
       /\ \A chunk \in Chunks : \A index \in Indices : dstat'[chunk].fed[index] <= 1]_vars

\* a SendFragment of a download was ignored: the download had decoded one
\* fragment and holds another in pending, and the handler left it as it was
DuplicateFragmentIgnored ==
    /\ plast.op = "RecvBlob"
    /\ plast.ok
    /\ plast.same
    /\ plast.chunk \in DOMAIN downloads
    /\ DOMAIN downloads[plast.chunk].pending # {}
    /\ \E index \in Indices : dstat[plast.chunk].fed[index] = 1

\* C40: a rejected duplicate leaves the existing state intact: when the
\* encoder of a second Put for a chunk in uploads, or a second Get for a chunk
\* in downloads, makes the handler return its error, uploads and downloads
\* are the same as before the event
DuplicateLeavesState ==
    (plast.op \in {"NewEncoder", "Get"} /\ ~plast.ok) => plast.same

\* ------------------------------------------------------------------ fatal errors
\* the session of the Peer takes its next event, of the given type
PeerHandling(type) ==
    peerQ # <<>> /\ Head(peerQ).type = type /\ peerQ' = Tail(peerQ)

\* the causal session of p takes its next event, of the given kind
CausalHandling(p, kind) ==
    /\ causalQ[p] # <<>>
    /\ Head(causalQ[p]).kind = kind
    /\ budget'[p] = budget[p]
    /\ causalQ'[p] # causalQ[p]

\* no handler of the Peer runs: no event is taken and nothing of the Peer changes
PeerStopped ==
    /\ peer_failed'
    /\ Len(peerQ') >= Len(peerQ)
    /\ UNCHANGED <<uploads, downloads, persists, netOut, blobOut, upcalls, plast>>

\* no handler of node p runs: no event is taken and nothing of the node changes
NodeStopped(p) ==
    /\ crashed'[p]
    /\ Len(causalQ'[p]) >= Len(causalQ[p])
    /\ Len(procQ'[p]) >= Len(procQ[p])
    /\ clock'[p] = clock[p]
    /\ pending_recv'[p] = pending_recv[p]
    /\ pending_send'[p] = pending_send[p]
    /\ latests'[p] = latests[p]
    /\ requests'[p] = requests[p]
    /\ requesting'[p] = requesting[p]

\* C25: each protocol invariant violation is a fatal error. The encoder of a
\* second Put for a chunk that is in uploads makes the NewEncoder handler
\* return an error, a local Request while requesting is true makes the
\* Request handler return an error, and an UpdateOk whose clock is not
\* strictly greater than the current clock makes the UpdateOk handler return
\* an error; the error ends the run loop of the session, and the actor
\* handles no further event
ViolationsFatal ==
    [][/\ (PeerHandling("NewEncoder") /\ Head(peerQ).chunk \in DOMAIN uploads) => peer_failed'
       /\ (mlast' # mlast /\ mlast'.op = "Request" /\ mlast'.replaced) => crashed'[mlast'.node]
       /\ \A p \in Nodes :
              (CausalHandling(p, "UpdateOk") /\ ~ClockGt(Head(causalQ[p]).clock, clock[p])) =>
                  crashed'[p]
       /\ peer_failed => PeerStopped
       /\ \A p \in Nodes : crashed[p] => NodeStopped(p)]_vars

\* the three violations have happened: the Peer has ended on the encoder of
\* a second Put, node 0 on a Request while requesting, and node 1, which has
\* asked nothing, on an UpdateOk that does not exceed its clock (the clock
\* of the UpdateOk is not installed)
ViolationsHappened ==
    /\ peer_failed
    /\ plast.op = "NewEncoder"
    /\ crashed[0]
    /\ mlast = [op |-> "Request", node |-> 0, replaced |-> TRUE]
    /\ crashed[1]
    /\ ~requesting[1]
    /\ clock[1] = clock_zero(1)

====
